---- MODULE Spec2Model ----
(***************************************************************************)
(* Sightline timeline engine: the block rope with positional edits, the    *)
(* hierarchical tag registry, the Timeline facade with its version         *)
(* counter, the snapshot file and the Tauri commands built on top of them. *)
(*                                                                         *)
(* Texts are sequences of UTF-8 bytes (numbers 0..255), so that character  *)
(* positions and byte positions differ as they do in the Rust strings.     *)
(* Tag strings are sequences of one-character strings.  The sum-tree is    *)
(* the sequence of its leaves in iteration order; its root summary is the  *)
(* fold of the leaves' summaries.                                          *)
(***************************************************************************)
EXTENDS Integers, Sequences, FiniteSets, TLC

VARIABLES tree, version, tag_registry, disk, response, timeline_mutex, calls

vars == <<tree, version, tag_registry, disk, response, timeline_mutex, calls>>

(***************************************************************************)
(* Bounds of the model.                                                    *)
(***************************************************************************)
\* Largest document, in characters, requests with op lists may build up to.
MaxChars == 3
\* Longest op list of one edit request.
MaxOps == 2
\* Largest version the model lets the counter reach.
MaxVersion == 1
\* Number of calendar dates; the last one is the latest the clock reports.
MaxDate == 2
\* Largest document, in characters, single-op requests may build up to.
MaxRopeChars == 8

\* Largest version single-op requests may reach.
MaxRopeVersion == 2

(***************************************************************************)
(* Option values.                                                          *)
(***************************************************************************)
None == [some |-> FALSE]

Some(v) == [some |-> TRUE, value |-> v]

(***************************************************************************)
(* UTF-8 text.                                                             *)
(***************************************************************************)
\* A byte starts a character unless it is a continuation byte 0x80..0xBF.
is_char_boundary(b) == b < 128 \/ b >= 192

\* str::char_indices: the (1-based) byte positions at which a character starts.
char_indices(input) == {i \in 1..Len(input) : is_char_boundary(input[i])}

char_count(text) == Cardinality(char_indices(text))

byte_count(text) == Len(text)

\* The texts an Insert may carry: "" and the one-character, two-byte "é".
Texts == {<<>>, <<195, 169>>}

\* split_at_char with char_index read as a count of bytes.
split_at_char_at_byte(input, char_index) ==
    IF char_index <= Len(input)
    THEN Some([left  |-> SubSeq(input, 1, char_index),
               right |-> SubSeq(input, char_index + 1, Len(input))])
    ELSE None

split_at_char(input, char_index) ==
    IF char_index = 0
    THEN Some([left |-> <<>>, right |-> input])
    ELSE LET hits == {byte \in char_indices(input) :
                        Cardinality({c \in char_indices(input) : c < byte}) = char_index}
         IN  IF hits # {}
             THEN LET byte == CHOOSE b \in hits : TRUE
                  IN  Some([left  |-> SubSeq(input, 1, byte - 1),
                            right |-> SubSeq(input, byte, Len(input))])
             ELSE IF char_count(input) = char_index
                  THEN Some([left |-> input, right |-> <<>>])
                  ELSE None

(***************************************************************************)
(* Blocks and the summary monoid.                                          *)
(***************************************************************************)
TaggedBlock(date, text, tags) == [date |-> date, text |-> text, tags |-> tags]

\* Number of items the tag filter is sized for.
TAG_FILTER_CAPACITY == 256

\* Geometry Bloom::new_for_fp_rate gives a filter for TAG_FILTER_CAPACITY items
\* at a false-positive rate of 0.01: a bitmap of 307 bytes and 7 hash functions.
FilterBits == 307 * 8

FilterHashes == 7

\* The bit positions Bloom::set turns on for a tag ID, and Bloom::check reads:
\* the same positions for the same ID in every filter, the seed being fixed.
bit_offsets(tag_id) ==
    {((tag_id + 1) * (37 + 2 * i) + i * i) % FilterBits : i \in 0..(FilterHashes - 1)}

\* A filter is the set of its bits that are on.
new_tag_filter == {}

filter_set(filter, tag_id) == filter \cup bit_offsets(tag_id)

filter_check(filter, tag_id) == bit_offsets(tag_id) \subseteq filter

\* union_tag_filters keeping the target whenever it has a bit on.
union_tag_filters_keeping_target(target, source) ==
    IF source = {} THEN target
    ELSE IF target = {} THEN source
    ELSE target

\* The bytes of the bit region OR-ed pairwise: a bit is on in the result when
\* it is on in the target or in the source.
union_tag_filters(target, source) ==
    IF source = {} THEN target
    ELSE IF target = {} THEN source
    ELSE target \cup source

summary_zero ==
    [total_bytes |-> 0, total_chars |-> 0, entry_count |-> 0,
     min_date |-> None, max_date |-> None, tags_filter |-> new_tag_filter]

RECURSIVE item_tags_filter(_)
\* The loop of Item::summary over the block's tags.
item_tags_filter(tags) ==
    IF tags = <<>> THEN new_tag_filter
    ELSE filter_set(item_tags_filter(SubSeq(tags, 1, Len(tags) - 1)), tags[Len(tags)])

\* Item::summary with the bytes of the text counted as its characters.
item_summary_in_bytes(block) ==
    [total_bytes |-> byte_count(block.text),
     total_chars |-> byte_count(block.text),
     entry_count |-> 1,
     min_date |-> Some(block.date),
     max_date |-> Some(block.date),
     tags_filter |-> item_tags_filter(block.tags)]

item_summary(block) ==
    [total_bytes |-> byte_count(block.text),
     total_chars |-> char_count(block.text),
     entry_count |-> 1,
     min_date |-> Some(block.date),
     max_date |-> Some(block.date),
     tags_filter |-> item_tags_filter(block.tags)]

\* add_summary taking the other summary's byte count instead of adding it.
add_summary_overwriting_bytes(self, other) ==
    [total_bytes |-> other.total_bytes,
     total_chars |-> self.total_chars + other.total_chars,
     entry_count |-> self.entry_count + other.entry_count,
     min_date |-> IF self.min_date.some /\ other.min_date.some
                  THEN Some(IF self.min_date.value <= other.min_date.value
                            THEN self.min_date.value ELSE other.min_date.value)
                  ELSE IF ~self.min_date.some THEN other.min_date
                  ELSE self.min_date,
     max_date |-> IF self.max_date.some /\ other.max_date.some
                  THEN Some(IF self.max_date.value >= other.max_date.value
                            THEN self.max_date.value ELSE other.max_date.value)
                  ELSE IF ~self.max_date.some THEN other.max_date
                  ELSE self.max_date,
     tags_filter |-> union_tag_filters(self.tags_filter, other.tags_filter)]

\* add_summary keeping the dates of the summary on the left when it has them.
add_summary_keeping_dates(self, other) ==
    [total_bytes |-> self.total_bytes + other.total_bytes,
     total_chars |-> self.total_chars + other.total_chars,
     entry_count |-> self.entry_count + other.entry_count,
     min_date |-> IF self.min_date.some THEN self.min_date ELSE other.min_date,
     max_date |-> IF self.max_date.some THEN self.max_date ELSE other.max_date,
     tags_filter |-> union_tag_filters(self.tags_filter, other.tags_filter)]

add_summary(self, other) ==
    [total_bytes |-> self.total_bytes + other.total_bytes,
     total_chars |-> self.total_chars + other.total_chars,
     entry_count |-> self.entry_count + other.entry_count,
     min_date |-> IF self.min_date.some /\ other.min_date.some
                  THEN Some(IF self.min_date.value <= other.min_date.value
                            THEN self.min_date.value ELSE other.min_date.value)
                  ELSE IF ~self.min_date.some THEN other.min_date
                  ELSE self.min_date,
     max_date |-> IF self.max_date.some /\ other.max_date.some
                  THEN Some(IF self.max_date.value >= other.max_date.value
                            THEN self.max_date.value ELSE other.max_date.value)
                  ELSE IF ~self.max_date.some THEN other.max_date
                  ELSE self.max_date,
     tags_filter |-> union_tag_filters(self.tags_filter, other.tags_filter)]

RECURSIVE summary(_)
\* SumTree::summary: the root summary, the fold of the leaves' summaries.
summary(t) ==
    IF t = <<>> THEN summary_zero
    ELSE add_summary(summary(SubSeq(t, 1, Len(t) - 1)), item_summary(t[Len(t)]))

(***************************************************************************)
(* Cursor over the Chars dimension.                                        *)
(***************************************************************************)
RECURSIVE seek(_, _, _, _)
\* Cursor::slice(&Chars(target), Bias::Left): leaves are consumed while the
\* target lies strictly beyond their end; index counts the consumed leaves
\* and start is the Chars dimension accumulated over them.
seek(t, target, index, start) ==
    IF index < Len(t) /\ target > start + item_summary(t[index + 1]).total_chars
    THEN seek(t, target, index + 1, start + item_summary(t[index + 1]).total_chars)
    ELSE [index |-> index, start |-> start]

cursor_slice(t, target) == seek(t, target, 0, 0)

cursor_item(t, cursor) == IF cursor.index < Len(t) THEN Some(t[cursor.index + 1]) ELSE None

cursor_next(t, cursor) ==
    IF cursor.index < Len(t)
    THEN [index |-> cursor.index + 1,
          start |-> cursor.start + item_summary(t[cursor.index + 1]).total_chars]
    ELSE cursor

cursor_suffix(t, cursor) == SubSeq(t, cursor.index + 1, Len(t))

(***************************************************************************)
(* Edit operations and their results.                                      *)
(***************************************************************************)
Insert(position, text) == [type |-> "insert", position |-> position, text |-> text]

Delete(start, end) == [type |-> "delete", start_position |-> start, end_position |-> end]

VersionMismatch(expected, actual) ==
    [kind |-> "VersionMismatch", expected |-> expected, actual |-> actual]

InvalidPosition(position) == [kind |-> "InvalidPosition", position |-> position]

InvalidRange(start, end) == [kind |-> "InvalidRange", start |-> start, end |-> end]

\* Result of a rope operation: the tree it leaves behind and Ok or the error.
RopeOk(t) == [ok |-> TRUE, tree |-> t]

RopeErr(t, e) == [ok |-> FALSE, tree |-> t, err |-> e]

\* apply_insert with the position checked before the text is looked at.
apply_insert_checking_position_first(t, position, text, date) ==
    IF position > summary(t).total_chars
    THEN RopeErr(t, InvalidPosition(position))
    ELSE IF text = <<>> THEN RopeOk(t)
    ELSE
    LET cursor == cursor_slice(t, position)
        left_tree == SubSeq(t, 1, cursor.index)
        offset_in_item == position - cursor.start
        inserted == TaggedBlock(date, text, <<>>)
    IN  IF offset_in_item > 0
        THEN LET current == cursor_item(t, cursor).value
                 parts == split_at_char(current.text, offset_in_item)
             IN  RopeOk((IF parts.value.left # <<>>
                         THEN Append(left_tree,
                                     TaggedBlock(current.date, parts.value.left, current.tags))
                         ELSE left_tree)
                        \o <<inserted>>
                        \o (IF parts.value.right # <<>>
                            THEN <<TaggedBlock(current.date, parts.value.right, current.tags)>>
                            ELSE <<>>)
                        \o cursor_suffix(t, cursor_next(t, cursor)))
        ELSE RopeOk(Append(left_tree, inserted) \o cursor_suffix(t, cursor))

\* A variant of apply_insert that keeps both fragments of the block it
\* splits, also a fragment with no characters.
apply_insert_keeping_empty_fragments(t, position, text, date) ==
    IF text = <<>> THEN RopeOk(t)
    ELSE IF position > summary(t).total_chars
    THEN RopeErr(t, InvalidPosition(position))
    ELSE
    LET cursor == cursor_slice(t, position)
        left_tree == SubSeq(t, 1, cursor.index)
        offset_in_item == position - cursor.start
        inserted == TaggedBlock(date, text, <<>>)
    IN  IF offset_in_item > 0
        THEN LET current == cursor_item(t, cursor).value
                 parts == split_at_char(current.text, offset_in_item)
             IN  RopeOk(Append(left_tree,
                               TaggedBlock(current.date, parts.value.left, current.tags))
                        \o <<inserted,
                             TaggedBlock(current.date, parts.value.right, current.tags)>>
                        \o cursor_suffix(t, cursor_next(t, cursor)))
        ELSE RopeOk(Append(left_tree, inserted) \o cursor_suffix(t, cursor))

\* A variant of apply_insert without the early return for an empty text.
apply_insert_of_any_text(t, position, text, date) ==
    IF position > summary(t).total_chars
    THEN RopeErr(t, InvalidPosition(position))
    ELSE
    LET cursor == cursor_slice(t, position)
        left_tree == SubSeq(t, 1, cursor.index)
        offset_in_item == position - cursor.start
        inserted == TaggedBlock(date, text, <<>>)
    IN  IF offset_in_item > 0
        THEN LET current == cursor_item(t, cursor).value
                 parts == split_at_char(current.text, offset_in_item)
             IN  RopeOk((IF parts.value.left # <<>>
                         THEN Append(left_tree,
                                     TaggedBlock(current.date, parts.value.left, current.tags))
                         ELSE left_tree)
                        \o <<inserted>>
                        \o (IF parts.value.right # <<>>
                            THEN <<TaggedBlock(current.date, parts.value.right, current.tags)>>
                            ELSE <<>>)
                        \o cursor_suffix(t, cursor_next(t, cursor)))
        ELSE RopeOk(Append(left_tree, inserted) \o cursor_suffix(t, cursor))

apply_insert(t, position, text, date) ==
    IF text = <<>> THEN RopeOk(t)
    ELSE IF position > summary(t).total_chars
    THEN RopeErr(t, InvalidPosition(position))
    ELSE
    LET cursor == cursor_slice(t, position)
        left_tree == SubSeq(t, 1, cursor.index)
        offset_in_item == position - cursor.start
        inserted == TaggedBlock(date, text, <<>>)
    IN  IF offset_in_item > 0
        THEN IF ~cursor_item(t, cursor).some
             THEN RopeErr(t, InvalidPosition(position))
             ELSE
             LET current == cursor_item(t, cursor).value
                 parts == split_at_char(current.text, offset_in_item)
             IN  IF offset_in_item > char_count(current.text) \/ ~parts.some
                 THEN RopeErr(t, InvalidPosition(position))
                 ELSE
                 LET left_fragment == parts.value.left
                     right_fragment == parts.value.right
                     with_left ==
                         IF left_fragment # <<>>
                         THEN Append(left_tree,
                                     TaggedBlock(current.date, left_fragment, current.tags))
                         ELSE left_tree
                     with_new == Append(with_left, inserted)
                     right_tree ==
                         IF right_fragment # <<>>
                         THEN <<TaggedBlock(current.date, right_fragment, current.tags)>>
                         ELSE <<>>
                 IN  RopeOk(with_new \o right_tree
                              \o cursor_suffix(t, cursor_next(t, cursor)))
        ELSE RopeOk(Append(left_tree, inserted) \o cursor_suffix(t, cursor))

\* apply_delete with the range checked before the empty range is let through.
apply_delete_checking_range_first(t, start, end) ==
    IF start > end \/ start > summary(t).total_chars \/ end > summary(t).total_chars
    THEN RopeErr(t, InvalidRange(start, end))
    ELSE IF start = end THEN RopeOk(t)
    ELSE
    LET prefix_cursor == cursor_slice(t, start)
        prefix_item == cursor_item(t, prefix_cursor).value
        prefix == split_at_char(prefix_item.text, start - prefix_cursor.start).value.left
        suffix_cursor == cursor_slice(t, end)
        item == cursor_item(t, suffix_cursor).value
        suffix == split_at_char(item.text, end - suffix_cursor.start).value.right
    IN  RopeOk(SubSeq(t, 1, prefix_cursor.index)
               \o (IF prefix # <<>>
                   THEN <<TaggedBlock(prefix_item.date, prefix, prefix_item.tags)>>
                   ELSE <<>>)
               \o (IF suffix # <<>>
                   THEN <<TaggedBlock(item.date, suffix, item.tags)>>
                   ELSE <<>>)
               \o cursor_suffix(t, cursor_next(t, suffix_cursor)))

\* apply_delete with the two surviving fragments joined into one block, which
\* takes the date and tags of the start block.
apply_delete_merging(t, start, end) ==
    IF start = end THEN RopeOk(t)
    ELSE IF start > end \/ start > summary(t).total_chars \/ end > summary(t).total_chars
    THEN RopeErr(t, InvalidRange(start, end))
    ELSE
    LET prefix_cursor == cursor_slice(t, start)
        prefix_item == cursor_item(t, prefix_cursor).value
        prefix == split_at_char(prefix_item.text, start - prefix_cursor.start).value.left
        suffix_cursor == cursor_slice(t, end)
        item == cursor_item(t, suffix_cursor).value
        suffix == split_at_char(item.text, end - suffix_cursor.start).value.right
    IN  RopeOk(SubSeq(t, 1, prefix_cursor.index)
               \o (IF prefix \o suffix # <<>>
                   THEN <<TaggedBlock(prefix_item.date, prefix \o suffix, prefix_item.tags)>>
                   ELSE <<>>)
               \o cursor_suffix(t, cursor_next(t, suffix_cursor)))

apply_delete(t, start, end) ==
    IF start = end THEN RopeOk(t)
    ELSE IF start > end THEN RopeErr(t, InvalidRange(start, end))
    ELSE IF start > summary(t).total_chars \/ end > summary(t).total_chars
    THEN RopeErr(t, InvalidRange(start, end))
    ELSE
    LET prefix_cursor == cursor_slice(t, start)
        left_tree == SubSeq(t, 1, prefix_cursor.index)
        offset_in_item == start - prefix_cursor.start
        prefix_item == cursor_item(t, prefix_cursor)
        prefix_parts ==
            IF prefix_item.some
            THEN split_at_char(prefix_item.value.text, offset_in_item)
            ELSE None
        prefix_failed ==
            /\ offset_in_item > 0
            /\ \/ ~prefix_item.some
               \/ offset_in_item > char_count(prefix_item.value.text)
               \/ ~prefix_parts.some
        with_left ==
            IF offset_in_item > 0 /\ prefix_parts.value.left # <<>>
            THEN Append(left_tree,
                        TaggedBlock(prefix_item.value.date, prefix_parts.value.left,
                                    prefix_item.value.tags))
            ELSE left_tree
        suffix_cursor == cursor_slice(t, end)
        consumed_end == suffix_cursor.start
        tail_offset == end - consumed_end
        item == cursor_item(t, suffix_cursor)
        tail_parts ==
            IF item.some THEN split_at_char(item.value.text, tail_offset) ELSE None
        suffix_failed ==
            \/ consumed_end > end
            \/ /\ item.some
               /\ (tail_offset > char_count(item.value.text) \/ ~tail_parts.some)
            \/ /\ ~item.some
               /\ tail_offset # 0
        right_tree ==
            IF item.some
            THEN (IF tail_parts.value.right # <<>>
                  THEN <<TaggedBlock(item.value.date, tail_parts.value.right,
                                     item.value.tags)>>
                  ELSE <<>>)
                 \o cursor_suffix(t, cursor_next(t, suffix_cursor))
            ELSE cursor_suffix(t, suffix_cursor)
    IN  IF prefix_failed \/ suffix_failed
        THEN RopeErr(t, InvalidRange(start, end))
        ELSE RopeOk(with_left \o right_tree)

\* apply_op with the end of a Delete read as the last character to remove.
apply_op_end_inclusive(t, op, date) ==
    IF op.type = "insert"
    THEN apply_insert(t, op.position, op.text, date)
    ELSE apply_delete(t, op.start_position, op.end_position + 1)

apply_op(t, op, date) ==
    IF op.type = "insert"
    THEN apply_insert(t, op.position, op.text, date)
    ELSE apply_delete(t, op.start_position, op.end_position)

RECURSIVE tree_apply_ops_rolling_back(_, _, _)
\* A variant of tree_apply_ops that undoes the ops already applied when a
\* later op fails.
tree_apply_ops_rolling_back(t, ops, date_for_inserts) ==
    IF ops = <<>> THEN RopeOk(t)
    ELSE LET r == apply_op(t, Head(ops), date_for_inserts)
         IN  IF r.ok
             THEN LET rest == tree_apply_ops_rolling_back(r.tree, Tail(ops),
                                                          date_for_inserts)
                  IN  IF rest.ok THEN rest ELSE [rest EXCEPT !.tree = t]
             ELSE r

RECURSIVE tree_apply_ops(_, _, _)
\* EditableTimeline::apply_ops: the ops in list order on the tree itself; the
\* first failing op returns its error and leaves the tree as the ops before
\* it made it.
tree_apply_ops(t, ops, date_for_inserts) ==
    IF ops = <<>> THEN RopeOk(t)
    ELSE LET r == apply_op(t, Head(ops), date_for_inserts)
         IN  IF r.ok THEN tree_apply_ops(r.tree, Tail(ops), date_for_inserts)
             ELSE r

(***************************************************************************)
(* Strings of the tag namespace: sequences of one-character strings.       *)
(***************************************************************************)
RECURSIVE trim_start(_)
trim_start(s) == IF s # <<>> /\ Head(s) = " " THEN trim_start(Tail(s)) ELSE s

RECURSIVE trim_end(_)
trim_end(s) ==
    IF s # <<>> /\ s[Len(s)] = " " THEN trim_end(SubSeq(s, 1, Len(s) - 1)) ELSE s

trim(s) == trim_end(trim_start(s))

RECURSIVE trim_start_matches(_, _)
\* str::trim_start_matches(c): every leading occurrence of c is removed.
trim_start_matches(s, c) ==
    IF s # <<>> /\ Head(s) = c THEN trim_start_matches(Tail(s), c) ELSE s

RECURSIVE split(_, _)
\* str::split(c): the pieces between the occurrences of c, empty ones kept.
split(s, c) ==
    IF \E i \in 1..Len(s) : s[i] = c
    THEN LET i == CHOOSE k \in 1..Len(s) : s[k] = c /\ \A j \in 1..(k - 1) : s[j] # c
         IN  <<SubSeq(s, 1, i - 1)>> \o split(SubSeq(s, i + 1, Len(s)), c)
    ELSE <<s>>

RECURSIVE join(_, _)
join(segments, c) ==
    IF segments = <<>> THEN <<>>
    ELSE IF Len(segments) = 1 THEN segments[1]
    ELSE segments[1] \o <<c>> \o join(Tail(segments), c)

\* char::to_lowercase on the letters of the tag namespace.
lower(c) == IF c = "A" THEN "a" ELSE IF c = "B" THEN "b" ELSE c

to_lowercase(s) == [i \in 1..Len(s) |-> lower(s[i])]

starts_with(s, prefix) ==
    Len(prefix) <= Len(s) /\ SubSeq(s, 1, Len(prefix)) = prefix

\* str::contains: the pattern occurs somewhere in s (the empty one always).
contains(s, pattern) ==
    \E i \in 0..Len(s) :
        i + Len(pattern) <= Len(s) /\ SubSeq(s, i + 1, i + Len(pattern)) = pattern

(***************************************************************************)
(* Tag palette.                                                            *)
(***************************************************************************)
PALETTE ==
    <<"oklch(0.78 0.20 25)", "oklch(0.80 0.19 55)", "oklch(0.82 0.18 90)",
      "oklch(0.83 0.17 120)", "oklch(0.82 0.16 150)", "oklch(0.80 0.17 180)",
      "oklch(0.79 0.18 210)", "oklch(0.78 0.19 235)", "oklch(0.77 0.20 260)",
      "oklch(0.78 0.19 285)", "oklch(0.80 0.18 310)", "oklch(0.81 0.18 330)",
      "oklch(0.83 0.17 345)", "oklch(0.84 0.16 10)", "oklch(0.82 0.18 40)",
      "oklch(0.79 0.19 70)">>

color_for(id) == PALETTE[(id % Len(PALETTE)) + 1]

(***************************************************************************)
(* Tag registry.  tags maps an ID to its Tag; index maps an optional       *)
(* parent ID to the map from segment name to ID.                           *)
(***************************************************************************)
\* Width, in bits, of a tag ID in the model.
IdBits == 5

IdModulus == 2 ^ IdBits

wrapping_add(id, n) == (id + n) % IdModulus

Tag(id, name, parent_id, color) ==
    [id |-> id, name |-> name, parent_id |-> parent_id, color |-> color]

registry_new == [tags |-> <<>>, index |-> <<>>, next_id |-> 0]

\* find_id looking among the root tags whatever the parent is.
find_id_among_roots(registry, parent_id, name) ==
    IF None \in DOMAIN registry.index
    THEN IF name \in DOMAIN registry.index[None]
         THEN Some(registry.index[None][name])
         ELSE None
    ELSE None

find_id(registry, parent_id, name) ==
    IF parent_id \in DOMAIN registry.index
    THEN IF name \in DOMAIN registry.index[parent_id]
         THEN Some(registry.index[parent_id][name])
         ELSE None
    ELSE None

RECURSIVE probe_id(_, _)
\* The loop of next_available_id: advance from id, wrapping, to the first ID
\* the registry does not hold; none when the walk returns to next_id.
probe_id(registry, id) ==
    IF id \in DOMAIN registry.tags
    THEN IF wrapping_add(id, 1) = registry.next_id
         THEN None
         ELSE probe_id(registry, wrapping_add(id, 1))
    ELSE Some(id)

\* A variant of next_available_id that hands out next_id without looking
\* whether it is in use.
next_available_id_without_probe(registry) ==
    Some([id |-> registry.next_id,
          registry |-> [registry EXCEPT !.next_id = wrapping_add(registry.next_id, 1)]])

\* The ID allocated and the registry with next_id moved past it; none when
\* the registry is exhausted (the code panics).
next_available_id(registry) ==
    LET found == probe_id(registry, registry.next_id)
    IN  IF found.some
        THEN Some([id |-> found.value,
                   registry |-> [registry EXCEPT !.next_id = wrapping_add(found.value, 1)]])
        ELSE None

bump_next_id(registry, id) ==
    IF registry.next_id <= id
    THEN [registry EXCEPT !.next_id = wrapping_add(id, 1)]
    ELSE registry

\* Outcome of an interning step: the ID returned and the registry left
\* behind, or a panic and the registry as it was when the code panicked.
Interned(id, registry) == [panic |-> FALSE, id |-> id, registry |-> registry]

Panicked(registry) == [panic |-> TRUE, registry |-> registry]

\* The end of intern_segment_with_id, from the check of the chosen ID on:
\* chosen is the ID to use and the registry as choosing it left it, or none
\* when the registry is exhausted.
insert_tag(registry, parent_id, name, chosen) ==
    IF ~chosen.some THEN Panicked(registry)
    ELSE IF chosen.value.id \in DOMAIN chosen.value.registry.tags
    THEN Panicked(chosen.value.registry)
    ELSE
    LET id == chosen.value.id
        reg == chosen.value.registry
        by_name == IF parent_id \in DOMAIN reg.index THEN reg.index[parent_id] ELSE <<>>
        inserted ==
            [reg EXCEPT
                !.tags = (id :> Tag(id, name, parent_id, Some(color_for(id)))) @@ reg.tags,
                !.index = (parent_id :> ((name :> id) @@ by_name)) @@ reg.index]
    IN  Interned(id, bump_next_id(inserted, id))

\* intern_segment_with_id taking the parent on trust.
intern_segment_with_id_trusting_parent(registry, parent_id, name, desired_id) ==
    IF find_id(registry, parent_id, name).some
    THEN Interned(find_id(registry, parent_id, name).value, registry)
    ELSE insert_tag(registry, parent_id, name,
                    IF desired_id.some
                    THEN Some([id |-> desired_id.value, registry |-> registry])
                    ELSE next_available_id(registry))

intern_segment_with_id(registry, parent_id, name, desired_id) ==
    IF find_id(registry, parent_id, name).some
    THEN Interned(find_id(registry, parent_id, name).value, registry)
    ELSE IF parent_id.some /\ parent_id.value \notin DOMAIN registry.tags
    THEN Panicked(registry)
    ELSE insert_tag(registry, parent_id, name,
                    IF desired_id.some
                    THEN Some([id |-> desired_id.value, registry |-> registry])
                    ELSE next_available_id(registry))

intern_segment(registry, parent_id, name) ==
    intern_segment_with_id(registry, parent_id, name, None)

RECURSIVE intern_path_from(_, _, _, _)
\* intern_path_next interning the next segment at the root.
intern_path_next_at_root(r, segments) ==
    IF r.panic THEN r
    ELSE intern_path_from(r.registry, segments, None, Some(r.id))

\* The loop of intern_path after a segment has been interned with outcome r:
\* its ID is the parent of the next segment and the last ID so far.
intern_path_next(r, segments) ==
    IF r.panic THEN r
    ELSE intern_path_from(r.registry, segments, Some(r.id), Some(r.id))

\* The loop of intern_path; the id of the outcome is the optional last ID.
intern_path_from(registry, segments, parent_id, last_id) ==
    IF segments = <<>> THEN Interned(last_id, registry)
    ELSE IF trim(Head(segments)) = <<>>
    THEN intern_path_from(registry, Tail(segments), parent_id, last_id)
    ELSE intern_path_next(intern_segment(registry, parent_id, trim(Head(segments))),
                          Tail(segments))

intern_path(registry, segments) == intern_path_from(registry, segments, None, None)

intern_colon_path(registry, path) ==
    LET pieces == split(path, ":")
        kept == SelectSeq([i \in 1..Len(pieces) |-> trim(pieces[i])],
                          LAMBDA segment : segment # <<>>)
    IN  intern_path(registry, kept)

RECURSIVE full_name_lookups(_, _, _)
\* The loop of full_name again, counting the tags it looks up
\* (self.tags.get) before it returns.
full_name_lookups(registry, current_id, guard) ==
    IF ~current_id.some THEN 0
    ELSE IF guard + 1 > Cardinality(DOMAIN registry.tags) + 1 THEN 0
    ELSE IF current_id.value \notin DOMAIN registry.tags THEN 1
    ELSE 1 + full_name_lookups(registry, registry.tags[current_id.value].parent_id,
                               guard + 1)

RECURSIVE full_name_from_guarding_early(_, _, _, _)
\* A variant of the loop of full_name whose guard is the registry size - 1.
full_name_from_guarding_early(registry, current_id, guard, segments) ==
    IF ~current_id.some
    THEN IF segments = <<>> THEN None
         ELSE Some(join([i \in 1..Len(segments) |-> segments[Len(segments) + 1 - i]], ":"))
    ELSE IF guard + 1 > Cardinality(DOMAIN registry.tags) - 1 THEN None
    ELSE IF current_id.value \notin DOMAIN registry.tags THEN None
    ELSE full_name_from_guarding_early(
             registry, registry.tags[current_id.value].parent_id, guard + 1,
             Append(segments, registry.tags[current_id.value].name))

RECURSIVE full_name_from(_, _, _, _)
\* The loop of full_name: segments is the names collected so far, leaf first.
full_name_from(registry, current_id, guard, segments) ==
    IF ~current_id.some
    THEN IF segments = <<>> THEN None
         ELSE Some(join([i \in 1..Len(segments) |-> segments[Len(segments) + 1 - i]], ":"))
    ELSE IF guard + 1 > Cardinality(DOMAIN registry.tags) + 1 THEN None
    ELSE IF current_id.value \notin DOMAIN registry.tags THEN None
    ELSE full_name_from(registry, registry.tags[current_id.value].parent_id, guard + 1,
                        Append(segments, registry.tags[current_id.value].name))

full_name(registry, id) == full_name_from(registry, Some(id), 0, <<>>)

export(registry) ==
    LET ids == DOMAIN registry.tags
        nth(k) == CHOOSE id \in ids : Cardinality({other \in ids : other < id}) = k - 1
    IN  [k \in 1..Cardinality(ids) |-> registry.tags[nth(k)]]

\* normalize_query leaving the letters as typed.
normalize_query_keeping_case(query) == trim_start_matches(trim(query), "#")

normalize_query(query) == to_lowercase(trim_start_matches(trim(query), "#"))

\* tag_names: the IDs that have a full name, each with it.
tag_names(registry) ==
    {[id |-> id, name |-> full_name(registry, id).value] :
        id \in {i \in DOMAIN registry.tags : full_name(registry, i).some}}

\* filter_tag_ids with the predicate starts_with: the IDs, in no order.
tag_ids_with_prefix(registry, query) ==
    IF normalize_query(query) = <<>> THEN {}
    ELSE {entry.id : entry \in {e \in tag_names(registry) :
                                    starts_with(to_lowercase(e.name), normalize_query(query))}}

\* filter_tag_ids with the predicate contains.
tag_ids_with_infix(registry, query) ==
    IF normalize_query(query) = <<>> THEN {}
    ELSE {entry.id : entry \in {e \in tag_names(registry) :
                                    contains(to_lowercase(e.name), normalize_query(query))}}

(***************************************************************************)
(* Timeline facade: a Timeline is [tree, version, tag_registry].           *)
(***************************************************************************)
Timeline(t, v, registry) == [tree |-> t, version |-> v, tag_registry |-> registry]

timeline_default == Timeline(<<>>, 0, registry_new)

Ok(v) == [kind |-> "Ok", value |-> v]

Err(name) == [kind |-> name]

InvalidBlock(index) == [kind |-> "InvalidBlock", index |-> index]

\* The outcome of a Timeline method: the Timeline it leaves and what it returns.
Outcome(self, result) == [timeline |-> self, result |-> result]

RECURSIVE content_of(_)
content_of(t) == IF t = <<>> THEN <<>> ELSE Head(t).text \o content_of(Tail(t))

content(self) == content_of(self.tree)

RECURSIVE log_of(_, _)
\* The loop of log_for_date: the texts of the entries of the date, in order.
log_of(t, date) ==
    IF t = <<>> THEN <<>>
    ELSE (IF Head(t).date = date THEN Head(t).text ELSE <<>>) \o log_of(Tail(t), date)

log_for_date(self, date) ==
    LET s == summary(self.tree)
    IN  IF ~s.min_date.some \/ ~s.max_date.some THEN None
        ELSE IF date < s.min_date.value \/ date > s.max_date.value THEN None
        ELSE IF log_of(self.tree, date) = <<>> THEN None
        ELSE Some(log_of(self.tree, date))

\* block_ids_with_tags: the 0-based indices, ascending, of the blocks that
\* carry one of the tag IDs.
block_ids_with_tags(self, tag_ids) ==
    IF tag_ids = {} THEN <<>>
    ELSE LET hits == {i \in 1..Len(self.tree) :
                        \E k \in 1..Len(self.tree[i].tags) : self.tree[i].tags[k] \in tag_ids}
             nth(k) == CHOOSE i \in hits : Cardinality({j \in hits : j < i}) = k - 1
         IN  [k \in 1..Cardinality(hits) |-> nth(k) - 1]

search_prefix(self, query) ==
    block_ids_with_tags(self, tag_ids_with_prefix(self.tag_registry, query))

search_infix(self, query) ==
    block_ids_with_tags(self, tag_ids_with_infix(self.tag_registry, query))

\* apply_ops with the version compared after the ops have been applied.
\* Width, in bits, of the u32 offsets and indices of list_blocks in the model.
OffsetBits == 2

u32_MAX == 2 ^ OffsetBits - 1

\* u32::try_from(n).unwrap_or(u32::MAX).
u32_try_from(n) == IF n > u32_MAX THEN u32_MAX ELSE n

\* u32 addition that wraps around.
u32_wrapping_add(a, b) == (a + b) % (u32_MAX + 1)

saturating_add(a, b) == IF a + b > u32_MAX THEN u32_MAX ELSE a + b

BlockMetadata(index, start_offset, end_offset, tags) ==
    [index |-> index, start_offset |-> start_offset, end_offset |-> end_offset,
     tags |-> tags]

RECURSIVE list_blocks_from(_, _, _)
\* The loop of list_blocks: index counts the blocks passed, offset is the
\* end of the last one.
list_blocks_from(t, index, offset) ==
    IF t = <<>> THEN <<>>
    ELSE <<BlockMetadata(u32_try_from(index), offset,
                         saturating_add(offset, u32_try_from(char_count(Head(t).text))),
                         Head(t).tags)>>
             \o list_blocks_from(Tail(t), index + 1,
                                 saturating_add(offset, u32_try_from(char_count(Head(t).text))))

list_blocks(self) == list_blocks_from(self.tree, 0, 0)

apply_ops_checking_late(self, base_version, ops, today) ==
    LET r == tree_apply_ops(self.tree, ops, today)
    IN  IF base_version # self.version
        THEN Outcome(Timeline(r.tree, self.version, self.tag_registry),
                     VersionMismatch(self.version, base_version))
        ELSE IF ops = <<>> THEN Outcome(self, Ok(self.version))
        ELSE IF r.ok
        THEN Outcome(Timeline(r.tree, self.version + 1, self.tag_registry),
                     Ok(self.version + 1))
        ELSE Outcome(Timeline(r.tree, self.version, self.tag_registry), r.err)

\* apply_ops with the version left alone when the ops changed no block.
apply_ops_bumping_on_change(self, base_version, ops, today) ==
    LET r == tree_apply_ops(self.tree, ops, today)
    IN  IF base_version # self.version
        THEN Outcome(self, VersionMismatch(self.version, base_version))
        ELSE IF ops = <<>> \/ (r.ok /\ r.tree = self.tree)
        THEN Outcome(self, Ok(self.version))
        ELSE IF r.ok
        THEN Outcome(Timeline(r.tree, self.version + 1, self.tag_registry),
                     Ok(self.version + 1))
        ELSE Outcome(Timeline(r.tree, self.version, self.tag_registry), r.err)

\* apply_ops without the early return on an empty op list.
apply_ops_bumping_always(self, base_version, ops, today) ==
    LET r == tree_apply_ops(self.tree, ops, today)
    IN  IF base_version # self.version
        THEN Outcome(self, VersionMismatch(self.version, base_version))
        ELSE IF r.ok
        THEN Outcome(Timeline(r.tree, self.version + 1, self.tag_registry),
                     Ok(self.version + 1))
        ELSE Outcome(Timeline(r.tree, self.version, self.tag_registry), r.err)

\* Width, in bits, of the u64 version counter in the model.
VersionBits == 3

u64_MAX == 2 ^ VersionBits - 1

\* self.version += 1 in a build without overflow checks: the counter wraps.
version_plus_one(v) == (v + 1) % (u64_MAX + 1)

apply_ops(self, base_version, ops, today) ==
    IF base_version # self.version
    THEN Outcome(self, VersionMismatch(self.version, base_version))
    ELSE IF ops = <<>> THEN Outcome(self, Ok(self.version))
    ELSE LET r == tree_apply_ops(self.tree, ops, today)
         IN  IF r.ok
             THEN Outcome(Timeline(r.tree, version_plus_one(self.version), self.tag_registry),
                          Ok(version_plus_one(self.version)))
             ELSE Outcome(Timeline(r.tree, self.version, self.tag_registry), r.err)

\* apply_ops in a build with overflow checks: self.version += 1 panics at
\* the largest version, after the ops have been applied to the rope.
apply_ops_overflow_checked(self, base_version, ops, today) ==
    IF base_version # self.version
    THEN Outcome(self, VersionMismatch(self.version, base_version))
    ELSE IF ops = <<>> THEN Outcome(self, Ok(self.version))
    ELSE LET r == tree_apply_ops(self.tree, ops, today)
         IN  IF r.ok
             THEN IF self.version = u64_MAX
                  THEN Outcome(Timeline(r.tree, self.version, self.tag_registry),
                               Err("Panic"))
                  ELSE Outcome(Timeline(r.tree, self.version + 1, self.tag_registry),
                               Ok(self.version + 1))
             ELSE Outcome(Timeline(r.tree, self.version, self.tag_registry), r.err)

\* What apply_ops may do, over the builds of the program: they differ only
\* at the largest version.
apply_ops_builds(self, base_version, ops, today) ==
    IF self.version = u64_MAX
    THEN {apply_ops(self, base_version, ops, today),
          apply_ops_overflow_checked(self, base_version, ops, today)}
    ELSE {apply_ops(self, base_version, ops, today)}

TagDescriptor(id, name, color) == [id |-> id, name |-> name, color |-> color]

\* The end of intern_tag, from the result of intern_colon_path on: interned
\* is that result and the registry it left.
describe_tag(self, interned) ==
    LET after == [self EXCEPT !.tag_registry = interned.registry]
    IN  IF interned.panic THEN Outcome(after, Err("Panic"))
        ELSE IF ~interned.id.some THEN Outcome(after, Err("Invalid"))
        ELSE
        LET tag_id == interned.id.value
            name == full_name(after.tag_registry, tag_id)
        IN  IF tag_id \notin DOMAIN after.tag_registry.tags \/ ~name.some
            THEN Outcome(after, [kind |-> "MissingName", id |-> tag_id])
            ELSE LET tag == after.tag_registry.tags[tag_id]
                     color == IF tag.color.some THEN tag.color.value ELSE color_for(tag_id)
                 IN  Outcome(after, Ok(TagDescriptor(tag_id, <<"#">> \o name.value, color)))

\* intern_tag stripping the '#' before it trims, with one check for empty.
intern_tag_stripping_first(self, raw) ==
    LET normalized == trim(trim_start_matches(raw, "#"))
    IN  IF normalized = <<>> THEN Outcome(self, Err("Invalid"))
        ELSE describe_tag(self, intern_colon_path(self.tag_registry, normalized))

intern_tag(self, raw) ==
    LET trimmed == trim(raw)
        normalized == trim(trim_start_matches(trimmed, "#"))
    IN  IF trimmed = <<>> THEN Outcome(self, Err("Empty"))
        ELSE IF normalized = <<>> THEN Outcome(self, Err("Invalid"))
        ELSE describe_tag(self, intern_colon_path(self.tag_registry, normalized))

RECURSIVE intern_tags(_, _, _)
\* The loop of assign_block_tags after a tag string has been handled with
\* outcome r: a rejected string ends the loop with that error.
intern_tags_next(r, tags, descriptors) ==
    IF r.result.kind = "Ok"
    THEN intern_tags(r.timeline, tags, Append(descriptors, r.result.value))
    ELSE r

\* The loop of assign_block_tags, with the descriptors collected so far.
intern_tags(self, tags, descriptors) ==
    IF tags = <<>> THEN Outcome(self, Ok(descriptors))
    ELSE intern_tags_next(intern_tag(self, Head(tags)), Tail(tags), descriptors)

\* replace_block_tags writing the tags to every block of the block's date.
replace_block_tags_by_date(self, block_index, r) ==
    IF r.result.kind # "Ok" THEN r
    ELSE LET tag_ids == [i \in 1..Len(r.result.value) |-> r.result.value[i].id]
             blocks == [j \in 1..Len(self.tree) |->
                           IF self.tree[j].date = self.tree[block_index + 1].date
                           THEN [self.tree[j] EXCEPT !.tags = tag_ids]
                           ELSE self.tree[j]]
         IN  Outcome([r.timeline EXCEPT !.tree = blocks], r.result)

\* replace_block_tags storing the tag list next to the registry the call
\* started with.
replace_block_tags_in_old_registry(self, block_index, r) ==
    IF r.result.kind # "Ok" THEN r
    ELSE LET tag_ids == [i \in 1..Len(r.result.value) |-> r.result.value[i].id]
             blocks == [self.tree EXCEPT ![block_index + 1].tags = tag_ids]
         IN  Outcome([self EXCEPT !.tree = blocks], r.result)

\* The end of assign_block_tags: r is the outcome of the loop over the tags.
replace_block_tags(self, block_index, r) ==
    IF r.result.kind # "Ok" THEN r
    ELSE LET tag_ids == [i \in 1..Len(r.result.value) |-> r.result.value[i].id]
             blocks == [self.tree EXCEPT ![block_index + 1].tags = tag_ids]
         IN  Outcome([r.timeline EXCEPT !.tree = blocks], r.result)

\* assign_block_tags looking the block up after the tags are interned.
assign_block_tags_interning_first(self, block_index, tags) ==
    IF block_index >= Len(self.tree)
    THEN Outcome(intern_tags(self, tags, <<>>).timeline, InvalidBlock(block_index))
    ELSE replace_block_tags(self, block_index, intern_tags(self, tags, <<>>))

assign_block_tags(self, block_index, tags) ==
    IF block_index >= Len(self.tree)
    THEN Outcome(self, InvalidBlock(block_index))
    ELSE replace_block_tags(self, block_index, intern_tags(self, tags, <<>>))

(***************************************************************************)
(* Snapshot codec.  The snapshot file is missing, holds a complete         *)
(* snapshot, or holds text that does not parse.                            *)
(***************************************************************************)
TimelineSnapshot(v, blocks, registry) ==
    [version |-> v, blocks |-> blocks, tag_registry |-> registry]

\* The two stored forms of the tag registry: the list of tag records, and
\* the legacy map from ID to colon path.
Hierarchical(tags) == [kind |-> "Hierarchical", tags |-> tags]

Flat(map) == [kind |-> "Flat", map |-> map]

NoFile == [exists |-> FALSE]

File(snapshot) == [exists |-> TRUE, parses |-> TRUE, snapshot |-> snapshot]

Unparsable == [exists |-> TRUE, parses |-> FALSE]

snapshot_of(self) ==
    TimelineSnapshot(self.version, self.tree,
                     IF export(self.tag_registry) = <<>>
                     THEN None
                     ELSE Some(Hierarchical(export(self.tag_registry))))

\* save_to_path: io is what the file system does with fs::write, which
\* truncates the file and then writes the data: "ok", "fail" when nothing
\* is touched (the directory or the file cannot be opened), "partial" when
\* the write stops after the truncation and the file holds a prefix of the
\* data, which does not parse.
save_to_path(self, file, io) ==
    IF io = "ok" THEN [ok |-> TRUE, file |-> File(snapshot_of(self))]
    ELSE IF io = "partial" THEN [ok |-> FALSE, file |-> Unparsable]
    ELSE [ok |-> FALSE, file |-> file]

\* A variant of ensure_tag_colors that gives every tag its palette color.
ensure_tag_colors_overwriting(registry) ==
    [registry EXCEPT !.tags =
        [id \in DOMAIN registry.tags |->
            [registry.tags[id] EXCEPT !.color = Some(color_for(id))]]]

ensure_tag_colors(registry) ==
    [registry EXCEPT !.tags =
        [id \in DOMAIN registry.tags |->
            IF registry.tags[id].color.some
            THEN registry.tags[id]
            ELSE [registry.tags[id] EXCEPT !.color = Some(color_for(id))]]]

RECURSIVE index_insert_all(_, _, _)
\* The loop of rebuild_indexes over tags.values(), visited in the given order.
index_insert_all(index, tags, order) ==
    IF order = <<>> THEN index
    ELSE LET tag == tags[Head(order)]
             by_name == IF tag.parent_id \in DOMAIN index THEN index[tag.parent_id] ELSE <<>>
         IN  index_insert_all((tag.parent_id :> ((tag.name :> tag.id) @@ by_name)) @@ index,
                              tags, Tail(order))

max_id(ids) == CHOOSE id \in ids : \A other \in ids : other <= id

\* order is the order in which the hash map yields its values.
rebuild_indexes(registry, order) ==
    ensure_tag_colors(
        [registry EXCEPT
            !.index = index_insert_all(<<>>, registry.tags, order),
            !.next_id = IF DOMAIN registry.tags = {} THEN 0
                        ELSE wrapping_add(max_id(DOMAIN registry.tags), 1)])

RECURSIVE collect_tags(_)
\* tags.into_iter().map(|tag| (tag.id, tag)).collect(): a later record of an
\* ID replaces an earlier one.
collect_tags(tags) ==
    IF tags = <<>> THEN <<>>
    ELSE (tags[Len(tags)].id :> tags[Len(tags)]) @@ collect_tags(SubSeq(tags, 1, Len(tags) - 1))

from_tags(tags, order) ==
    rebuild_indexes(
        ensure_tag_colors([tags |-> collect_tags(tags), index |-> <<>>, next_id |-> 0]),
        order)

\* The orders in which a hash map of these IDs may yield them.
Orders(ids) ==
    {order \in [1..Cardinality(ids) -> ids] :
        \A i, j \in 1..Cardinality(ids) : i # j => order[i] # order[j]}

\* Code of a character of the tag namespace, for the order of strings.
char_code(c) ==
    CASE c = " " -> 32 [] c = "#" -> 35 [] c = ":" -> 58 [] c = "A" -> 65
      [] c = "B" -> 66 [] c = "a" -> 97 [] c = "b" -> 98

RECURSIVE str_less(_, _)
\* String order: a.cmp(b) = Less.
str_less(a, b) ==
    IF b = <<>> THEN FALSE
    ELSE IF a = <<>> THEN TRUE
    ELSE IF char_code(Head(a)) # char_code(Head(b))
    THEN char_code(Head(a)) < char_code(Head(b))
    ELSE str_less(Tail(a), Tail(b))

\* entries of from_map before entry: by path, then by ID.
entry_less(a, b) ==
    str_less(a.path, b.path) \/ (a.path = b.path /\ a.id < b.id)

RECURSIVE sort_entries(_)
\* The entries of the legacy map, sorted by path and then by ID.
sort_entries(entries) ==
    IF entries = {} THEN <<>>
    ELSE LET first == CHOOSE e \in entries :
                          \A other \in entries \ {e} : entry_less(e, other)
         IN  <<first>> \o sort_entries(entries \ {first})

RECURSIVE from_map_segments(_, _, _, _, _)
\* The inner loop of from_map after a segment has been interned with
\* outcome r.
from_map_segments_next(r, id, segments, index) ==
    IF r.panic THEN r
    ELSE from_map_segments(r.registry, id, segments, index + 1, Some(r.id))

\* The inner loop of from_map over the segments of one entry: the last
\* segment is interned with the recorded ID, the others with a new one.
from_map_segments(registry, id, segments, index, parent) ==
    IF index > Len(segments) THEN Interned(parent, registry)
    ELSE IF trim(segments[index]) = <<>>
    THEN from_map_segments(registry, id, segments, index + 1, parent)
    ELSE from_map_segments_next(
             intern_segment_with_id(registry, parent, trim(segments[index]),
                                    IF index = Len(segments) THEN Some(id) ELSE None),
             id, segments, index)

RECURSIVE from_map_entries(_, _)
\* The outer loop of from_map after an entry has been handled with outcome r.
from_map_entries_next(r, entries) ==
    IF r.panic THEN r ELSE from_map_entries(r.registry, entries)

\* The outer loop of from_map over the sorted entries.
from_map_entries(registry, entries) ==
    IF entries = <<>> THEN Interned(None, registry)
    ELSE from_map_entries_next(
             from_map_segments(registry, Head(entries).id,
                               split(Head(entries).path, ":"), 1, None),
             Tail(entries))

\* from_map: the registry, or a panic of intern_segment_with_id.
from_map(id_to_tag) ==
    from_map_entries(registry_new,
                     sort_entries({[id |-> id, path |-> id_to_tag[id]] :
                                      id \in DOMAIN id_to_tag}))

\* The end of load_from_path for the legacy map: loaded is from_map's outcome.
loaded_from_map(file, loaded) ==
    IF loaded.panic THEN Err("Panic")
    ELSE Ok(Timeline(file.snapshot.blocks, file.snapshot.version, loaded.registry))

\* load_from_path: Ok(Timeline), or the error kind; Panic when from_map
\* panics.
load_from_path(file, order) ==
    IF ~file.exists THEN Ok(timeline_default)
    ELSE IF ~file.parses THEN Err("Serde")
    ELSE IF ~file.snapshot.tag_registry.some
    THEN Ok(Timeline(file.snapshot.blocks, file.snapshot.version, registry_new))
    ELSE IF file.snapshot.tag_registry.value.kind = "Hierarchical"
    THEN Ok(Timeline(file.snapshot.blocks, file.snapshot.version,
                     from_tags(file.snapshot.tag_registry.value.tags, order)))
    ELSE loaded_from_map(file, from_map(file.snapshot.tag_registry.value.map))

\* AppState::new: Timeline::load().unwrap_or_default().
app_state_new(file, order) ==
    IF load_from_path(file, order).kind = "Ok"
    THEN load_from_path(file, order).value
    ELSE timeline_default

(***************************************************************************)
(* Commands.  Every command holds the timeline lock from its first line to *)
(* its return, so each is one step.  response is the reply on its way to   *)
(* the caller, with the request it answers and the Timeline it met.        *)
(***************************************************************************)
Idle == [cmd |-> "none"]

EditOk(new_version) == [status |-> "ok", new_version |-> new_version]

Conflict(server_version) == [status |-> "conflict", server_version |-> server_version]

CommandError(err) == [status |-> "error", error |-> err]

self_now == Timeline(tree, version, tag_registry)

\* The positions a request made against the tree t may name: those of t and
\* one past its end.
Positions(t) == 0..(summary(t).total_chars + 1)

Ops(t) ==
    {Insert(position, text) : position \in Positions(t), text \in Texts}
        \cup {Delete(start, end) : start \in Positions(t), end \in Positions(t)}

OpLists(t) == UNION {[1..n -> Ops(t)] : n \in 0..MaxOps}

RECURSIVE inserted_chars(_)
inserted_chars(ops) ==
    IF ops = <<>> THEN 0
    ELSE (IF Head(ops).type = "insert" THEN char_count(Head(ops).text) ELSE 0)
             + inserted_chars(Tail(ops))

Dates == 1..MaxDate

handle_edit(base_version, ops, today, io) ==
    /\ response = Idle
    /\ \E out \in apply_ops_builds(self_now, base_version, ops, today) :
           /\ tree' = out.timeline.tree
           /\ version' = out.timeline.version
           /\ tag_registry' = out.timeline.tag_registry
           /\ disk' = IF out.result.kind = "Ok"
                      THEN save_to_path(out.timeline, disk, io).file
                      ELSE disk
           /\ response' =
                 [cmd |-> "handle_edit", base_version |-> base_version, ops |-> ops,
                  today |-> today, io |-> io, before |-> self_now,
                  result |-> out.result,
                  reply |-> IF out.result.kind = "Ok" THEN EditOk(out.result.value)
                            ELSE IF out.result.kind = "VersionMismatch"
                            THEN Conflict(out.result.expected)
                            ELSE CommandError(out.result)]
    /\ UNCHANGED <<timeline_mutex, calls>>

\* commands::intern_tag: the descriptor is returned only if the save that
\* follows succeeds; a rejected string is reported without a save.
command_intern_tag(tag, io) ==
    /\ response = Idle
    /\ \E out \in {intern_tag(self_now, tag)} :
           /\ tree' = out.timeline.tree
           /\ version' = out.timeline.version
           /\ tag_registry' = out.timeline.tag_registry
           /\ disk' = IF out.result.kind = "Ok"
                      THEN save_to_path(out.timeline, disk, io).file
                      ELSE disk
           /\ response' =
                 [cmd |-> "intern_tag", tag |-> tag, io |-> io, before |-> self_now,
                  result |-> out.result,
                  reply |-> IF out.result.kind # "Ok" THEN CommandError(out.result)
                            ELSE IF ~save_to_path(out.timeline, disk, io).ok
                            THEN CommandError(Err("Io"))
                            ELSE out.result]
    /\ UNCHANGED <<timeline_mutex, calls>>

\* commands::assign_block_tags.
command_assign_block_tags(block_index, tags, io) ==
    /\ response = Idle
    /\ \E out \in {assign_block_tags(self_now, block_index, tags)} :
           /\ tree' = out.timeline.tree
           /\ version' = out.timeline.version
           /\ tag_registry' = out.timeline.tag_registry
           /\ disk' = IF out.result.kind = "Ok"
                      THEN save_to_path(out.timeline, disk, io).file
                      ELSE disk
           /\ response' =
                 [cmd |-> "assign_block_tags", block_index |-> block_index, tags |-> tags,
                  io |-> io, before |-> self_now, result |-> out.result,
                  reply |-> IF out.result.kind # "Ok" THEN CommandError(out.result)
                            ELSE IF ~save_to_path(out.timeline, disk, io).ok
                            THEN CommandError(Err("Io"))
                            ELSE out.result]
    /\ UNCHANGED <<timeline_mutex, calls>>

\* commands::search_prefix and commands::search_infix.
command_search(kind, query) ==
    /\ response = Idle
    /\ response' =
          [cmd |-> kind, query |-> query, before |-> self_now,
           reply |-> IF kind = "search_prefix" THEN search_prefix(self_now, query)
                     ELSE search_infix(self_now, query)]
    /\ UNCHANGED <<tree, version, tag_registry, disk, timeline_mutex, calls>>

\* commands::get_log_for_date, for a date string that parses: none becomes "".
command_get_log_for_date(date) ==
    /\ response = Idle
    /\ response' =
          [cmd |-> "get_log_for_date", date |-> date, before |-> self_now,
           result |-> log_for_date(self_now, date),
           reply |-> IF log_for_date(self_now, date).some
                     THEN log_for_date(self_now, date).value
                     ELSE <<>>]
    /\ UNCHANGED <<tree, version, tag_registry, disk, timeline_mutex, calls>>

\* commands::list_blocks.
command_list_blocks ==
    /\ response = Idle
    /\ response' = [cmd |-> "list_blocks", before |-> self_now,
                    reply |-> list_blocks(self_now)]
    /\ UNCHANGED <<tree, version, tag_registry, disk, timeline_mutex, calls>>

\* The caller takes the reply; the next command can be issued.
receive_response ==
    /\ response # Idle
    /\ response' = Idle
    /\ UNCHANGED <<tree, version, tag_registry, disk, timeline_mutex, calls>>

\* The model's cap on the growth of the document.
within(ops, limit) ==
    inserted_chars(ops) = 0 \/ summary(tree).total_chars + inserted_chars(ops) <= limit

(***************************************************************************)
(* The application starts from the snapshot file it finds.                 *)
(***************************************************************************)
StoredIds(file) ==
    IF file.exists /\ file.parses /\ file.snapshot.tag_registry.some
    THEN IF file.snapshot.tag_registry.value.kind = "Hierarchical"
         THEN DOMAIN collect_tags(file.snapshot.tag_registry.value.tags)
         ELSE {}
    ELSE {}

started_from(files) ==
    \E file \in files :
        \E order \in Orders(StoredIds(file)) :
            /\ disk = file
            /\ tree = app_state_new(file, order).tree
            /\ version = app_state_new(file, order).version
            /\ tag_registry = app_state_new(file, order).tag_registry
            /\ response = Idle
            /\ timeline_mutex = None
            /\ calls = <<>>

\* Tags "a" (0) and "a:b" (1), stored without colors.
StoredTags == <<Tag(0, <<"a">>, None, None), Tag(1, <<"b">>, Some(0), None)>>

(***************************************************************************)
(* Spec: edit requests with op lists of up to MaxOps ops, any base         *)
(* version, on small documents.                                            *)
(***************************************************************************)
\* No file, or one block "aß" dated 1 and tagged a:b, at version 0.
StoredFiles ==
    {NoFile,
     File(TimelineSnapshot(0, <<TaggedBlock(1, <<97, 195, 159>>, <<1>>)>>, Some(Hierarchical(StoredTags))))}

Init == started_from(StoredFiles)

edit_request ==
    /\ response = Idle
    /\ \E base_version \in 0..MaxVersion, ops \in OpLists(tree) :
           /\ within(ops, MaxChars)
           /\ handle_edit(base_version, ops, MaxDate, "ok")
           /\ version' <= MaxVersion

Next ==
    \/ edit_request
    \/ receive_response

Spec == Init /\ [][Next]_vars

(***************************************************************************)
(* SpecRope: edit requests of one op at the current version, on a stored   *)
(* document of five blocks with different dates and tags.                  *)
(***************************************************************************)
\* "a" | "ßb" | "c" | "dß" | "e".
RopeFiles ==
    {File(TimelineSnapshot(0,
                           <<TaggedBlock(1, <<97>>, <<>>),
                             TaggedBlock(1, <<195, 159, 98>>, <<0>>),
                             TaggedBlock(2, <<99>>, <<1>>),
                             TaggedBlock(2, <<100, 195, 159>>, <<1, 0>>),
                             TaggedBlock(1, <<101>>, <<0>>)>>,
                           Some(Hierarchical(StoredTags))))}

InitRope == started_from(RopeFiles)

single_op_request ==
    /\ response = Idle
    /\ \E op \in Ops(tree), today \in Dates :
           /\ within(<<op>>, MaxRopeChars)
           /\ handle_edit(version, <<op>>, today, "ok")
           /\ version' <= MaxRopeVersion

NextRope ==
    \/ single_op_request
    \/ receive_response

SpecRope == InitRope /\ [][NextRope]_vars

(***************************************************************************)
(* Reading a reply: the request it answers, the Timeline the request met   *)
(* (response.before) and the Timeline it left (self_now).                  *)
(***************************************************************************)
Edited == response.cmd = "handle_edit"

\* An op that cannot change the text: an Insert of "" or a Delete of [p, p).
Degenerate(op) ==
    IF op.type = "insert" THEN op.text = <<>> ELSE op.start_position = op.end_position

\* An op whose positions lie outside the document of t.
OutOfRange(op, t) ==
    IF op.type = "insert" THEN op.position > summary(t).total_chars
    ELSE op.start_position > summary(t).total_chars
             \/ op.end_position > summary(t).total_chars

(***************************************************************************)
(* The document as a flat string of characters.                            *)
(***************************************************************************)
RECURSIVE Chars(_)
\* The characters of a UTF-8 text, each the sequence of its bytes.
Chars(text) ==
    IF text = <<>> THEN <<>>
    ELSE LET width == IF \E i \in 2..Len(text) : is_char_boundary(text[i])
                      THEN (CHOOSE i \in 2..Len(text) :
                                /\ is_char_boundary(text[i])
                                /\ \A j \in 2..(i - 1) : ~is_char_boundary(text[j])) - 1
                      ELSE Len(text)
         IN  <<SubSeq(text, 1, width)>> \o Chars(SubSeq(text, width + 1, Len(text)))

\* s with t put before the character of index p (counted from 0).
FlatInsert(s, p, t) ==
    [i \in 1..(Len(s) + Len(t)) |->
        IF i <= p THEN s[i]
        ELSE IF i <= p + Len(t) THEN t[i - p]
        ELSE s[i - Len(t)]]

\* s without its characters of index a, ..., b - 1 (counted from 0).
FlatDelete(s, a, b) ==
    LET kept == {i \in 1..Len(s) : ~(a <= i - 1 /\ i - 1 < b)}
        nth(k) == CHOOSE i \in kept : Cardinality({j \in kept : j < i}) = k - 1
    IN  [k \in 1..Cardinality(kept) |-> s[nth(k)]]

FlatOp(s, op) ==
    IF op.type = "insert" THEN FlatInsert(s, op.position, Chars(op.text))
    ELSE FlatDelete(s, op.start_position, op.end_position)

RECURSIVE FlatApply(_, _)
FlatApply(s, ops) == IF ops = <<>> THEN s ELSE FlatApply(FlatOp(s, Head(ops)), Tail(ops))

(***************************************************************************)
(* Claims.                                                                 *)
(***************************************************************************)

\* C1: apply_ops with a base_version other than the current version returns
\* VersionMismatch{expected = current, actual = base_version} and leaves
\* version, blocks and tag registry as they were, whatever the ops; handle_edit
\* answers Conflict{server_version = current}.
C1_StaleEditRejected ==
    (Edited /\ response.base_version # response.before.version) =>
        /\ response.result = VersionMismatch(response.before.version, response.base_version)
        /\ self_now = response.before
        /\ response.reply = Conflict(response.before.version)

\* A stale request whose first op would have changed the text and whose last
\* op names a position outside the document has been answered.
C1_Witness ==
    /\ Edited
    /\ response.base_version # response.before.version
    /\ Len(response.ops) = MaxOps
    /\ ~Degenerate(response.ops[1])
    /\ ~OutOfRange(response.ops[1], response.before.tree)
    /\ OutOfRange(response.ops[MaxOps], response.before.tree)
    /\ response.before.tree # <<>>

\* C2: apply_ops with the current version and a non-empty op list whose ops
\* all succeed adds exactly 1 to the version and returns the new version; a
\* non-empty list of degenerate ops does so too, and leaves the blocks alone.
C2_SuccessBumpsVersionByOne ==
    (Edited /\ response.base_version = response.before.version /\ response.ops # <<>>) =>
        /\ response.result.kind = "Ok" =>
              /\ version = response.before.version + 1
              /\ response.result = Ok(version)
              /\ response.reply = EditOk(version)
        /\ (\A i \in 1..Len(response.ops) : Degenerate(response.ops[i])) =>
              /\ response.result = Ok(response.before.version + 1)
              /\ version = response.before.version + 1
              /\ tree = response.before.tree

\* A list of an Insert of "" and a Delete of an empty range has been applied
\* to a document with text, and a list that changed the text as well.
C2_Witness ==
    /\ Edited
    /\ response.result.kind = "Ok"
    /\ response.before.tree # <<>>
    /\ Len(response.ops) = MaxOps
    /\ \A i \in 1..Len(response.ops) : Degenerate(response.ops[i])
    /\ response.ops[1].type # response.ops[MaxOps].type
    /\ version = response.before.version + 1

\* C3: apply_ops with the current version and an empty op list returns the
\* current version and leaves version, blocks and tag registry as they were.
C3_EmptyListIsNoOp ==
    (Edited /\ response.base_version = response.before.version /\ response.ops = <<>>) =>
        /\ response.result = Ok(response.before.version)
        /\ self_now = response.before

C3_Witness ==
    /\ Edited
    /\ response.base_version = response.before.version
    /\ response.ops = <<>>
    /\ response.before.tree # <<>>
    /\ response.before.tag_registry # registry_new

\* C4: every apply_ops call that changes the block sequence adds exactly 1 to
\* the version.
C4_ChangedBlocksBumpVersion ==
    (Edited /\ tree # response.before.tree) => version = response.before.version + 1

\* C5: after a successful apply_ops the concatenated block texts are the
\* previous content with the ops applied in list order as plain-string
\* edits, each op reading its positions against the string the ops before it
\* produced.
C5_RopeRefinesFlatString ==
    (Edited /\ response.result.kind = "Ok") =>
        Chars(content(self_now)) = FlatApply(Chars(content(response.before)), response.ops)

\* Two ops that both changed the text: the second one's positions are valid
\* only in the document the first one produced, or the two do not commute.
C5_Witness ==
    /\ Edited
    /\ response.result.kind = "Ok"
    /\ Len(response.ops) = MaxOps
    /\ response.before.tree # <<>>
    /\ ~Degenerate(response.ops[1])
    /\ ~Degenerate(response.ops[MaxOps])
    /\ response.ops[1].type = "insert"
    /\ OutOfRange(response.ops[MaxOps], response.before.tree)
    /\ Len(tree) > 1

(***************************************************************************)
(* A request of one op, read against the blocks it met.                    *)
(***************************************************************************)
SingleOp == Edited /\ Len(response.ops) = 1 /\ response.base_version = response.before.version

\* The number of characters of a block sequence, counted character by character.
Length(t) == Len(Chars(content_of(t)))

RECURSIVE Bytes(_)
\* The text made of a sequence of characters.
Bytes(chars) == IF chars = <<>> THEN <<>> ELSE Head(chars) \o Bytes(Tail(chars))

\* The block of t's block b that keeps only its characters first..last.
Fragment(b, first, last) ==
    TaggedBlock(b.date, Bytes(SubSeq(Chars(b.text), first, last)), b.tags)

RECURSIVE Concat(_)
Concat(lists) == IF lists = <<>> THEN <<>> ELSE Head(lists) \o Concat(Tail(lists))

\* What is left of block i of t once the characters [start, end) of the document
\* are gone: the block itself when the range misses it, else its part before
\* start and its part from end on, each only if it has characters.
Remains(t, i, start, end) ==
    LET a == Length(SubSeq(t, 1, i - 1))
        b == a + Length(<<t[i]>>)
    IN  IF b <= start \/ a >= end THEN <<t[i]>>
        ELSE (IF a < start THEN <<Fragment(t[i], 1, start - a)>> ELSE <<>>)
             \o (IF end < b THEN <<Fragment(t[i], end - a + 1, b - a)>> ELSE <<>>)

\* C6: a single Insert of non-empty text at a position in [0, chars(T)]
\* succeeds and makes summary().total_chars chars(T) + char_count(text); a single
\* Delete with start <= end <= chars(T) succeeds and makes it
\* chars(T) - (end - start).
C6_LengthAccounting ==
    SingleOp =>
        LET op == response.ops[1]
            T == response.before.tree
        IN  /\ (op.type = "insert" /\ op.text # <<>> /\ op.position <= Length(T)) =>
                  /\ response.result.kind = "Ok"
                  /\ summary(tree).total_chars = summary(T).total_chars + Len(Chars(op.text))
                  /\ summary(tree).total_chars = Length(tree)
            /\ (op.type = "delete" /\ op.start_position <= op.end_position
                    /\ op.end_position <= Length(T)) =>
                  /\ response.result.kind = "Ok"
                  /\ summary(tree).total_chars
                         = summary(T).total_chars - (op.end_position - op.start_position)
                  /\ summary(tree).total_chars = Length(tree)

\* A two-byte character has been inserted inside a block of several bytes per
\* character.
C6_Witness ==
    /\ SingleOp
    /\ response.result.kind = "Ok"
    /\ response.ops[1].type = "insert"
    /\ response.ops[1].text # <<>>
    /\ byte_count(response.ops[1].text) > Len(Chars(response.ops[1].text))
    /\ summary(response.before.tree).total_bytes > summary(response.before.tree).total_chars
    /\ Len(tree) = Len(response.before.tree) + 3 - 1

\* C7: a single Insert fails with InvalidPosition exactly when its text is
\* non-empty and its position exceeds the total character count, and then the
\* blocks are unchanged; an Insert of empty text succeeds and leaves the blocks
\* unchanged whatever its position.
C7_InsertErrors ==
    (SingleOp /\ response.ops[1].type = "insert") =>
        LET op == response.ops[1]
            T == response.before.tree
            fails == op.text # <<>> /\ op.position > Length(T)
        IN  /\ response.result.kind \in {"Ok", "InvalidPosition"}
            /\ response.result.kind = "InvalidPosition" <=> fails
            /\ fails => /\ response.result = InvalidPosition(op.position)
                        /\ tree = T
                        /\ response.reply = CommandError(InvalidPosition(op.position))
            /\ op.text = <<>> => response.result.kind = "Ok" /\ tree = T

\* A non-empty text has been refused one position past the end of a document
\* with several blocks.
C7_Witness ==
    /\ SingleOp
    /\ response.ops[1].type = "insert"
    /\ response.ops[1].text # <<>>
    /\ response.ops[1].position = Length(response.before.tree) + 1
    /\ response.result.kind = "InvalidPosition"
    /\ Len(response.before.tree) > 1

\* C8: a single Delete fails with InvalidRange{start, end} exactly when
\* start # end and (start > end or end > total character count), and then the
\* blocks are unchanged; a Delete with start = end succeeds and leaves the
\* blocks unchanged, also when start lies past the end of the document.
C8_DeleteErrors ==
    (SingleOp /\ response.ops[1].type = "delete") =>
        LET op == response.ops[1]
            T == response.before.tree
            fails == /\ op.start_position # op.end_position
                     /\ \/ op.start_position > op.end_position
                        \/ op.end_position > Length(T)
        IN  /\ response.result.kind \in {"Ok", "InvalidRange"}
            /\ response.result.kind = "InvalidRange" <=> fails
            /\ fails => /\ response.result = InvalidRange(op.start_position, op.end_position)
                        /\ tree = T
            /\ op.start_position = op.end_position =>
                   response.result.kind = "Ok" /\ tree = T

\* An empty range past the end of a document with several blocks has been
\* accepted.
C8_Witness ==
    /\ SingleOp
    /\ response.ops[1].type = "delete"
    /\ response.ops[1].start_position = response.ops[1].end_position
    /\ response.ops[1].start_position > Length(response.before.tree)
    /\ response.result.kind = "Ok"
    /\ Len(response.before.tree) > 1

\* The block of t, if any, that position p lies strictly inside.
Inside(t, p) ==
    {k \in 1..Len(t) : /\ Length(SubSeq(t, 1, k - 1)) < p
                       /\ p < Length(SubSeq(t, 1, k))}

\* C9: an Insert of non-empty text at an offset o strictly inside block B,
\* 0 < o < chars(B), puts three blocks in B's place: B's first o characters
\* with B's date and tags, the text with the caller's date and no tags, B's
\* other characters with B's date and tags; the other blocks keep their date,
\* text, tags and order.
C9_MidBlockInsertSplits ==
    (SingleOp /\ response.ops[1].type = "insert" /\ response.ops[1].text # <<>>) =>
        LET op == response.ops[1]
            T == response.before.tree
        IN  \A k \in Inside(T, op.position) :
                LET o == op.position - Length(SubSeq(T, 1, k - 1))
                IN  /\ response.result.kind = "Ok"
                    /\ tree = SubSeq(T, 1, k - 1)
                                \o <<Fragment(T[k], 1, o),
                                     TaggedBlock(response.today, op.text, <<>>),
                                     Fragment(T[k], o + 1, Length(<<T[k]>>))>>
                                \o SubSeq(T, k + 1, Len(T))

\* A tagged block between two other blocks has been split around a text of
\* another date, at a character of two bytes.
C9_Witness ==
    /\ SingleOp
    /\ response.ops[1].type = "insert"
    /\ response.ops[1].text # <<>>
    /\ response.result.kind = "Ok"
    /\ \E k \in Inside(response.before.tree, response.ops[1].position) :
           /\ 1 < k
           /\ k < Len(response.before.tree)
           /\ response.before.tree[k].tags # <<>>
           /\ response.before.tree[k].date # response.today
           /\ byte_count(response.before.tree[k].text) > Length(<<response.before.tree[k]>>)

\* C10: a Delete(start, end) with start < end <= total chars leaves the blocks
\* before the start block S, S's part before start with S's date and tags if
\* it has characters, the end block E's part from end on with E's date and
\* tags if it has characters, and the blocks after E; the blocks between S and
\* E are gone and the two parts stay two blocks.
C10_DeleteKeepsFragmentsApart ==
    (SingleOp /\ response.ops[1].type = "delete"
        /\ response.ops[1].start_position < response.ops[1].end_position
        /\ response.ops[1].end_position <= Length(response.before.tree)) =>
        LET op == response.ops[1]
            T == response.before.tree
        IN  /\ response.result.kind = "Ok"
            /\ tree = Concat([i \in 1..Len(T) |->
                                Remains(T, i, op.start_position, op.end_position)])

\* A range from inside one block to inside a later one, with a block between
\* them and blocks around them, has been deleted; the parts left have
\* different dates.
C10_Witness ==
    /\ SingleOp
    /\ response.ops[1].type = "delete"
    /\ response.result.kind = "Ok"
    /\ \E s, e \in 1..Len(response.before.tree) :
           /\ 1 < s
           /\ s + 1 < e
           /\ e < Len(response.before.tree)
           /\ s \in Inside(response.before.tree, response.ops[1].start_position)
           /\ e \in Inside(response.before.tree, response.ops[1].end_position)
           /\ response.before.tree[s].date # response.before.tree[e].date
           /\ Len(tree) = Len(response.before.tree) - (e - s - 1)

(***************************************************************************)
(* SpecBlocks: single-op edits, tag assignment, searches and date logs on  *)
(* a small document.                                                       *)
(***************************************************************************)
\* Largest document, in characters, SpecBlocks builds.
MaxBlockChars == 4

\* Largest version SpecBlocks reaches.
MaxBlockVersion == 1

\* Most tag IDs the blocks of SpecBlocks carry, all blocks together.
MaxTagLoad == 3

\* Longest list of tag strings of one assign_block_tags request.
MaxTagList == 2

\* No file, or "aß" (date 1, tagged a:b) | "c" (date MaxDate + 1, no tags),
\* at version 0.
BlockFiles ==
    {NoFile,
     File(TimelineSnapshot(0,
                           <<TaggedBlock(1, <<97, 195, 159>>, <<1>>),
                             TaggedBlock(MaxDate + 1, <<99>>, <<>>)>>,
                           Some(Hierarchical(StoredTags))))}

\* The tag strings of a request: "B", "#a:b" and the unusable "#".
TagStrings == {<<"B">>, <<"#", "a", ":", "b">>, <<"#">>}

TagLists == UNION {[1..n -> TagStrings] : n \in 0..MaxTagList}

\* The queries of a search: "a", " #A:", "b", ":", "# a" and "".
Queries ==
    {<<"a">>, <<" ", "#", "A", ":">>, <<"b">>, <<":">>, <<"#", " ", "a">>, <<>>}

RECURSIVE tag_load(_)
tag_load(t) == IF t = <<>> THEN 0 ELSE Len(Head(t).tags) + tag_load(Tail(t))

InitBlocks == started_from(BlockFiles)

block_edit_request ==
    /\ response = Idle
    /\ \E op \in Ops(tree), today \in Dates :
           /\ within(<<op>>, MaxBlockChars)
           /\ handle_edit(version, <<op>>, today, "ok")
           /\ version' <= MaxBlockVersion
           /\ tag_load(tree') <= MaxTagLoad

assign_request ==
    /\ response = Idle
    /\ \E block_index \in 0..Len(tree), tags \in TagLists :
           /\ command_assign_block_tags(block_index, tags, "ok")
           /\ tag_load(tree') <= MaxTagLoad

search_request ==
    /\ response = Idle
    /\ \E kind \in {"search_prefix", "search_infix"}, query \in Queries :
           command_search(kind, query)

log_request ==
    /\ response = Idle
    /\ \E date \in 0..(MaxDate + 2) : command_get_log_for_date(date)

list_blocks_request ==
    /\ response = Idle
    /\ command_list_blocks

NextBlocks ==
    \/ block_edit_request
    \/ assign_request
    \/ search_request
    \/ log_request
    \/ list_blocks_request
    \/ receive_response

SpecBlocks == InitBlocks /\ [][NextBlocks]_vars

(***************************************************************************)
(* Claims on the summary.                                                  *)
(***************************************************************************)
RECURSIVE Sum(_)
\* The sum of a sequence of numbers.
Sum(numbers) == IF numbers = <<>> THEN 0 ELSE Head(numbers) + Sum(Tail(numbers))

\* A command other than a query has been answered with success.
Assigned == response.cmd = "assign_block_tags" /\ response.result.kind = "Ok"

\* C11: in every state reached through load, apply_ops and assign_block_tags
\* the root summary's total_chars, total_bytes and entry_count are the sum of
\* the blocks' character counts, the sum of their byte counts and the number
\* of blocks.
C11_SummaryCountsBlocks ==
    /\ summary(tree).total_chars = Sum([i \in 1..Len(tree) |-> Len(Chars(tree[i].text))])
    /\ summary(tree).total_bytes = Sum([i \in 1..Len(tree) |-> Len(tree[i].text)])
    /\ summary(tree).entry_count = Len(tree)

\* Tags have been assigned in a document of three blocks or more, with a
\* character of two bytes, that an edit made of the loaded one.
C11_Witness ==
    /\ Assigned
    /\ version > 0
    /\ Len(tree) >= 3
    /\ summary(tree).total_bytes > summary(tree).total_chars
    /\ tree # response.before.tree

\* C12: in every reachable state every tag ID of every block tests positive in
\* the root summary's tag filter.
C12_FilterHasNoFalseNegative ==
    \A i \in 1..Len(tree) :
        \A k \in 1..Len(tree[i].tags) :
            filter_check(summary(tree).tags_filter, tree[i].tags[k])

\* After an edit and an assignment, two blocks carry tags and one of them a
\* tag the other does not carry; a block without tags lies before them.
C12_Witness ==
    /\ Assigned
    /\ version > 0
    /\ \E h, i, j \in 1..Len(tree) :
           /\ h < i
           /\ i < j
           /\ tree[h].tags = <<>>
           /\ tree[i].tags # <<>>
           /\ \E k \in 1..Len(tree[j].tags) :
                  \A m \in 1..Len(tree[i].tags) : tree[i].tags[m] # tree[j].tags[k]

(***************************************************************************)
(* SpecTags: tags interned through the facade (intern_tag) and through the *)
(* registry handed out by tag_registry_mut (intern_path,                   *)
(* intern_colon_path), from the empty registry or a stored one.            *)
(***************************************************************************)
\* The model's cap on the number of tags in the registry.
MaxTags == 4

\* No file, or a document whose registry holds "a" (0) and "a:b" (1).
TagFiles ==
    {NoFile,
     File(TimelineSnapshot(0, <<TaggedBlock(1, <<97>>, <<1>>)>>, Some(Hierarchical(StoredTags))))}

\* "", " ", "#", "# #", ":", "#:", " : ", "a", "#a", " a ", "##a", "A",
\* "a:b", "#a: b", "a::b", ":a:b:", "b", "b:a", "#b".
RawTags ==
    {<<>>, <<" ">>, <<"#">>, <<"#", " ", "#">>, <<":">>, <<"#", ":">>, <<" ", ":", " ">>,
     <<"a">>, <<"#", "a">>, <<" ", "a", " ">>, <<"#", "#", "a">>, <<"A">>,
     <<"a", ":", "b">>, <<"#", "a", ":", " ", "b">>, <<"a", ":", ":", "b">>,
     <<":", "a", ":", "b", ":">>, <<"b">>, <<"b", ":", "a">>, <<"#", "b">>}

\* [], [""], ["a"], [" a", "b "], ["a", " ", "b"], ["b"], ["b", "a"].
SegmentLists ==
    {<<>>, << <<>> >>, << <<"a">> >>, << <<" ", "a">>, <<"b", " ">> >>,
     << <<"a">>, <<" ">>, <<"b">> >>, << <<"b">> >>, << <<"b">>, <<"a">> >>}

\* What a call on the registry returned: an optional ID, or a panic.
Returned(interned) ==
    IF interned.panic THEN Err("Panic") ELSE Ok(interned.id)

\* timeline.tag_registry_mut().intern_colon_path(path).
registry_intern_colon_path(path) ==
    /\ response = Idle
    /\ \E interned \in {intern_colon_path(tag_registry, path)} :
           /\ tag_registry' = interned.registry
           /\ response' = [cmd |-> "intern_colon_path", path |-> path,
                           before |-> self_now, result |-> Returned(interned)]
    /\ UNCHANGED <<tree, version, disk, timeline_mutex, calls>>

\* timeline.tag_registry_mut().intern_path(segments).
registry_intern_path(segments) ==
    /\ response = Idle
    /\ \E interned \in {intern_path(tag_registry, segments)} :
           /\ tag_registry' = interned.registry
           /\ response' = [cmd |-> "intern_path", segments |-> segments,
                           before |-> self_now, result |-> Returned(interned)]
    /\ UNCHANGED <<tree, version, disk, timeline_mutex, calls>>

\* timeline.tag_registry_mut().intern_segment(parent_id, name).
registry_intern_segment(parent_id, name) ==
    /\ response = Idle
    /\ \E interned \in {intern_segment(tag_registry, parent_id, name)} :
           /\ tag_registry' = interned.registry
           /\ response' = [cmd |-> "intern_segment", parent_id |-> parent_id,
                           name |-> name, before |-> self_now,
                           result |-> IF interned.panic THEN Err("Panic")
                                      ELSE Ok(interned.id)]
    /\ UNCHANGED <<tree, version, disk, timeline_mutex, calls>>

InitTags == started_from(TagFiles)

intern_tag_request ==
    /\ response = Idle
    /\ \E tag \in RawTags :
           /\ command_intern_tag(tag, "ok")
           /\ Cardinality(DOMAIN tag_registry'.tags) <= MaxTags

intern_colon_path_request ==
    /\ response = Idle
    /\ \E path \in RawTags :
           /\ registry_intern_colon_path(path)
           /\ Cardinality(DOMAIN tag_registry'.tags) <= MaxTags

intern_path_request ==
    /\ response = Idle
    /\ \E segments \in SegmentLists :
           /\ registry_intern_path(segments)
           /\ Cardinality(DOMAIN tag_registry'.tags) <= MaxTags

\* Any parent, in the registry or not, and the names "a" and "b".
intern_segment_request ==
    /\ response = Idle
    /\ \E parent_id \in {None} \cup {Some(id) : id \in 0..MaxTags}, name \in {<<"a">>, <<"b">>} :
           /\ registry_intern_segment(parent_id, name)
           /\ Cardinality(DOMAIN tag_registry'.tags) <= MaxTags

NextTags ==
    \/ intern_tag_request
    \/ intern_segment_request
    \/ intern_colon_path_request
    \/ intern_path_request
    \/ receive_response

SpecTags == InitTags /\ [][NextTags]_vars

(***************************************************************************)
(* Reading an interning call: the path it asked for and the ID it got.     *)
(***************************************************************************)
\* The non-empty trimmed segments of a colon path.
Segments(path) ==
    SelectSeq([i \in 1..Len(split(path, ":")) |-> trim(split(path, ":")[i])],
              LAMBDA segment : segment # <<>>)

\* The segments a raw tag string stands for: leading blanks and '#' ignored.
TagSegments(raw) == Segments(trim_start_matches(trim_start(raw), "#"))

Interning == response.cmd \in {"intern_tag", "intern_colon_path", "intern_path"}

\* The normalised path the call asked for, as a sequence of segment names.
Asked ==
    IF response.cmd = "intern_tag" THEN TagSegments(response.tag)
    ELSE IF response.cmd = "intern_colon_path" THEN Segments(response.path)
    ELSE SelectSeq([i \in 1..Len(response.segments) |-> trim(response.segments[i])],
                   LAMBDA segment : segment # <<>>)

\* The call returned an ID.
GotId ==
    /\ Interning
    /\ response.result.kind = "Ok"
    /\ response.cmd # "intern_tag" => response.result.value.some

TheId ==
    IF response.cmd = "intern_tag" THEN response.result.value.id
    ELSE response.result.value.value

RECURSIVE PathOf(_, _, _)
\* The names from the root down to tag id, read from the tag map alone;
\* fuel bounds the walk.
PathOf(registry, id, fuel) ==
    IF id \notin DOMAIN registry.tags \/ fuel = 0 THEN <<>>
    ELSE IF registry.tags[id].parent_id.some
    THEN Append(PathOf(registry, registry.tags[id].parent_id.value, fuel - 1),
                registry.tags[id].name)
    ELSE <<registry.tags[id].name>>

\* The IDs of the tags that sit at the path p.
IdsAt(registry, p) ==
    {id \in DOMAIN registry.tags :
        PathOf(registry, id, Cardinality(DOMAIN registry.tags)) = p}

C14_FullNameRoundTrip ==
    (response.cmd = "intern_colon_path" /\ response.result.kind = "Ok") =>
        /\ response.result.value.some <=> Segments(response.path) # <<>>
        /\ response.result.value.some =>
               full_name(tag_registry, response.result.value.value)
                   = Some(join(Segments(response.path), ":"))

\* "#a: b" is interned as a new path: its full name is "#a:b".
C14_Witness ==
    /\ response.cmd = "intern_colon_path"
    /\ response.path = <<"#", "a", ":", " ", "b">>
    /\ response.result.kind = "Ok"
    /\ response.result.value.some
    /\ full_name(tag_registry, response.result.value.value)
           = Some(<<"#", "a", ":", "b">>)
    /\ Cardinality(DOMAIN tag_registry.tags)
           = Cardinality(DOMAIN response.before.tag_registry.tags) + 2

\* C15: the registry is well formed.  No two tags share a parent and a
\* name, every parent is a tag of the registry, find_id finds every tag at
\* its parent and name, and every entry of the index is the ID of a tag.
C15_RegistryWellFormed ==
    LET tags == tag_registry.tags
        index == tag_registry.index
    IN  /\ \A s \in DOMAIN tags : \A t \in DOMAIN tags :
               (tags[s].parent_id = tags[t].parent_id /\ tags[s].name = tags[t].name)
                   => s = t
        /\ \A t \in DOMAIN tags :
               tags[t].parent_id.some => tags[t].parent_id.value \in DOMAIN tags
        /\ \A t \in DOMAIN tags :
               find_id(tag_registry, tags[t].parent_id, tags[t].name) = Some(t)
        /\ \A parent_id \in DOMAIN index : \A name \in DOMAIN index[parent_id] :
               index[parent_id][name] \in DOMAIN tags

\* From the empty registry: MaxTags tags, two of them with the same name
\* under different parents, after an intern_segment call that named a
\* parent the registry does not hold.
C15_Witness ==
    /\ tree = <<>>
    /\ response.cmd = "intern_segment"
    /\ response.result.kind = "Panic"
    /\ Cardinality(DOMAIN tag_registry.tags) = MaxTags
    /\ \E s \in DOMAIN tag_registry.tags : \E t \in DOMAIN tag_registry.tags :
           /\ tag_registry.tags[s].name = tag_registry.tags[t].name
           /\ tag_registry.tags[s].parent_id # tag_registry.tags[t].parent_id

\* A string of blanks, the empty one included.
Blank(raw) == \A i \in 1..Len(raw) : raw[i] = " "

\* C16: intern_tag answers Empty exactly for a blank string and Invalid
\* exactly for a string that is not blank but has no non-empty colon segment
\* once the leading '#' are stripped; neither changes the registry or the
\* file.  Any other string succeeds with the ID of a tag of the registry,
\* '#' followed by the full name, and a color that is not empty.
C16_InternTagRejections ==
    response.cmd = "intern_tag" =>
        /\ response.result.kind = "Empty" <=> Blank(response.tag)
        /\ response.result.kind = "Invalid" <=>
               (~Blank(response.tag) /\ TagSegments(response.tag) = <<>>)
        /\ response.result.kind \in {"Empty", "Invalid"} =>
               /\ tag_registry = response.before.tag_registry
               /\ response.reply = CommandError(response.result)
        /\ response.result.kind \notin {"Empty", "Invalid"} =>
               /\ response.result.kind = "Ok"
               /\ response.result.value.id \in DOMAIN tag_registry.tags
               /\ response.result.value.name
                      = <<"#">> \o join(TagSegments(response.tag), ":")
               /\ full_name(tag_registry, response.result.value.id)
                      = Some(join(TagSegments(response.tag), ":"))
               /\ response.result.value.color # ""

\* "#:" is rejected as Invalid by a registry that holds tags.
C16_Witness ==
    /\ response.cmd = "intern_tag"
    /\ response.tag = <<"#", ":">>
    /\ response.result.kind = "Invalid"
    /\ DOMAIN tag_registry.tags # {}
    /\ tag_registry = response.before.tag_registry

(***************************************************************************)
(* Claims on tag assignment, search and the date log.                      *)
(***************************************************************************)
\* C17: a successful assign_block_tags(i, tags) gives block i the IDs of
\* the tag strings, in the order of the strings, and leaves the number of
\* blocks, every text and date, the tags of every other block, content()
\* and the version as they were.
C17_AssignReplacesOneTagList ==
    Assigned =>
        LET i == response.block_index + 1
            before == response.before
        IN  /\ Len(tree) = Len(before.tree)
            /\ \A j \in 1..Len(before.tree) :
                   /\ tree[j].text = before.tree[j].text
                   /\ tree[j].date = before.tree[j].date
                   /\ j # i => tree[j].tags = before.tree[j].tags
            /\ Len(tree[i].tags) = Len(response.tags)
            /\ \A k \in 1..Len(response.tags) :
                   IdsAt(tag_registry, TagSegments(response.tags[k])) = {tree[i].tags[k]}
            /\ content(self_now) = content(before)
            /\ version = before.version

\* Two tags are assigned to one fragment of a block that an insertion
\* split; the other fragment, of the same date, keeps the tags both had.
C17_Witness ==
    /\ Assigned
    /\ Len(response.tags) = 2
    /\ response.block_index + 2 < Len(tree)
    /\ LET i == response.block_index + 1
       IN  /\ tree[i].tags # response.before.tree[i].tags
           /\ tree[i].tags[1] > tree[i].tags[2]
           /\ response.before.tree[i].tags # <<>>
           /\ tree[i + 2].tags = response.before.tree[i].tags
           /\ tree[i + 2].date = tree[i].date

\* C18: assign_block_tags fails with InvalidBlock, carrying the index,
\* exactly when the index is not below the number of blocks, whatever the
\* tag strings are; the blocks, the version and the registry are then what
\* they were, so no tag string of the call has been interned.
C18_InvalidBlockChangesNothing ==
    response.cmd = "assign_block_tags" =>
        /\ response.result.kind = "InvalidBlock"
               <=> response.block_index >= Len(response.before.tree)
        /\ response.result.kind = "InvalidBlock" =>
               /\ response.result.index = response.block_index
               /\ self_now = response.before
               /\ response.reply = CommandError(response.result)

\* An index one past the last block, with the tag string "B" that the
\* registry does not hold, and still does not hold afterwards.
C18_Witness ==
    /\ response.cmd = "assign_block_tags"
    /\ response.result.kind = "InvalidBlock"
    /\ response.before.tree # <<>>
    /\ response.tags # <<>>
    /\ response.tags[1] = <<"B">>
    /\ IdsAt(tag_registry, << <<"B">> >>) = {}

Searched == response.cmd \in {"search_prefix", "search_infix"}

\* The query as the search reads it: trimmed, without leading '#', lowercase.
NormalQuery == to_lowercase(trim_start_matches(trim(response.query), "#"))

\* The lowercase full name of a tag, read from the tag map alone.
LowerName(registry, id) ==
    to_lowercase(join(PathOf(registry, id, Cardinality(DOMAIN registry.tags)), ":"))

\* name starts with q (search_prefix) or holds q somewhere (search_infix).
Matches(name, q) ==
    IF response.cmd = "search_prefix"
    THEN \E n \in 0..Len(name) : SubSeq(name, 1, n) = q
    ELSE \E first \in 1..(Len(name) + 1) : \E last \in 0..Len(name) :
             SubSeq(name, first, last) = q

\* The 0-based indices of the blocks with a tag whose name matches.
Hits ==
    IF NormalQuery = <<>> THEN {}
    ELSE {j - 1 : j \in {b \in 1..Len(tree) :
              \E k \in 1..Len(tree[b].tags) :
                  /\ tree[b].tags[k] \in DOMAIN tag_registry.tags
                  /\ Matches(LowerName(tag_registry, tree[b].tags[k]), NormalQuery)}}

\* C19: search_prefix and search_infix return, ascending and without
\* repetition, exactly the 0-based indices of the blocks that carry a tag
\* whose lowercase full name starts with, or contains, the normalised query;
\* nothing when the normalised query is empty or no tag matches.
C19_SearchReturnsMatchingBlocks ==
    Searched =>
        /\ \A k \in 1..(Len(response.reply) - 1) : response.reply[k] < response.reply[k + 1]
        /\ {response.reply[k] : k \in 1..Len(response.reply)} = Hits

\* The infix "b" finds two blocks that are not neighbours, one of them
\* tagged B, and not the block between them or the block after them.
C19_Witness ==
    /\ response.cmd = "search_infix"
    /\ response.query = <<"b">>
    /\ Len(response.reply) = 2
    /\ response.reply[2] > response.reply[1] + 1
    /\ Len(tree) > response.reply[2] + 1
    /\ \E j \in 1..Len(tree) : \E k \in 1..Len(tree[j].tags) :
           LowerName(tag_registry, tree[j].tags[k]) = <<"b">>

\* The blocks of the date the log was asked for, in block order.
OfTheDate == SelectSeq(tree, LAMBDA block : block.date = response.date)

\* C20: log_for_date(d) is none when no block has the date d, whether d is
\* outside the dates of the summary, or inside them, and otherwise the texts
\* of the blocks of date d, concatenated in block order; the command
\* replies with that text, or with the empty one for none.
C20_LogForDate ==
    response.cmd = "get_log_for_date" =>
        /\ OfTheDate = <<>> => response.result = None
        /\ OfTheDate # <<>> =>
               response.result
                   = Some(Concat([i \in 1..Len(OfTheDate) |-> OfTheDate[i].text]))
        /\ response.reply = IF response.result.some THEN response.result.value ELSE <<>>

\* After an insertion split a block, the log of the earliest date of the
\* document is made of the two fragments, on either side of a block of a
\* later date.
C20_Witness ==
    /\ response.cmd = "get_log_for_date"
    /\ version > 0
    /\ response.result.some
    /\ response.date = summary(tree).min_date.value
    /\ response.date < summary(tree).max_date.value
    /\ \E i \in 1..Len(tree) : \E j \in 1..Len(tree) : \E k \in 1..Len(tree) :
           /\ i < j /\ j < k
           /\ tree[i].date = response.date
           /\ tree[j].date > response.date
           /\ tree[k].date = response.date

\* C21: list_blocks returns one entry per block, in block order: entry i
\* (from 0) has index i and the tags of block i, the first entry starts at
\* 0, each entry starts where the one before ends, and an entry ends its
\* block's character count after its start, or at the largest u32 when that
\* sum is larger.
C21_ListBlocksOffsets ==
    response.cmd = "list_blocks" =>
        /\ Len(response.reply) = Len(tree)
        /\ \A i \in 1..Len(tree) :
               /\ response.reply[i].index = i - 1
               /\ response.reply[i].tags = tree[i].tags
               /\ response.reply[i].start_offset
                      = IF i = 1 THEN 0 ELSE response.reply[i - 1].end_offset
               /\ response.reply[i].end_offset
                      = IF response.reply[i].start_offset + Len(Chars(tree[i].text)) > u32_MAX
                        THEN u32_MAX
                        ELSE response.reply[i].start_offset + Len(Chars(tree[i].text))

\* A document with more characters than the largest u32, in three blocks
\* or more, one of them tagged: the last offsets are the largest u32.
C21_Witness ==
    /\ response.cmd = "list_blocks"
    /\ Len(tree) >= 3
    /\ summary(tree).total_chars > u32_MAX
    /\ response.reply[Len(tree)].end_offset = u32_MAX
    /\ response.reply[2].start_offset > 0
    /\ \E i \in 1..Len(tree) : response.reply[i].tags # <<>>

(***************************************************************************)
(* SpecCodec: the application is started on snapshot files of both forms,  *)
(* restarted on the file it wrote, and edits, interns and assigns in       *)
(* between, with saves that succeed, fail or stop part-way.                *)
(***************************************************************************)
\* Most characters of a document of SpecCodec.
MaxCodecChars == 2

\* Most tags of a registry of SpecCodec.
MaxCodecTags == 4

\* Edits of SpecCodec are made below this version, and at the last two
\* versions of the counter.
MaxCodecVersion == 2

\* The largest tag ID.
u32_id_MAX == IdModulus - 1

\* The tags a, a:b as records without colors, and b, a with a at the
\* largest ID.
WrapTags == <<Tag(2, <<"b">>, None, None), Tag(u32_id_MAX, <<"a">>, None, None)>>

\* The snapshot files the application is started on: none, one that does
\* not parse, canonical ones (the second at the last version but one, the
\* third with the largest tag ID), and legacy maps: {0: "a", 1: "a:b"},
\* {5: " a : b"}, {0: "a:b"}, {5: "a:"}, {max: "a", 2: "b"}.
CodecFiles ==
    {NoFile,
     Unparsable,
     File(TimelineSnapshot(1, <<TaggedBlock(1, <<97>>, <<1>>)>>, Some(Hierarchical(StoredTags)))),
     File(TimelineSnapshot(u64_MAX - 1, <<>>, None)),
     File(TimelineSnapshot(1, <<>>, Some(Hierarchical(WrapTags)))),
     File(TimelineSnapshot(1, <<TaggedBlock(1, <<97>>, <<1>>)>>,
                           Some(Flat(0 :> <<"a">> @@ 1 :> <<"a", ":", "b">>)))),
     File(TimelineSnapshot(1, <<>>, Some(Flat(5 :> <<" ", "a", " ", ":", " ", "b">>)))),
     File(TimelineSnapshot(1, <<>>, Some(Flat(0 :> <<"a", ":", "b">>)))),
     File(TimelineSnapshot(1, <<>>, Some(Flat(5 :> <<"a", ":">>)))),
     File(TimelineSnapshot(1, <<>>, Some(Flat(u32_id_MAX :> <<"a">> @@ 2 :> <<"b">>))))}

\* The tag strings of SpecCodec: "#b" and "a:b".
CodecTags == {<<"#", "b">>, <<"a", ":", "b">>}

\* What the file system does with a save.
IoOutcomes == {"ok", "fail", "partial"}

\* A panic took the process down (in AppState::new), or poisoned the
\* timeline lock (in a command): no command is served until a restart.
Crashed ==
    /\ response.cmd \in {"app_start", "handle_edit", "intern_tag", "assign_block_tags"}
    /\ response.result.kind = "Panic"

\* The program is started with the snapshot file being file: AppState::new
\* loads it, and starts from the empty Timeline when the load fails.
app_start(file, order) ==
    /\ response = Idle \/ Crashed
    /\ disk' = file
    /\ \E loaded \in {load_from_path(file, order)} :
           /\ tree' = IF loaded.kind = "Ok" THEN loaded.value.tree ELSE <<>>
           /\ version' = IF loaded.kind = "Ok" THEN loaded.value.version ELSE 0
           /\ tag_registry' =
                  IF loaded.kind = "Ok" THEN loaded.value.tag_registry ELSE registry_new
           /\ response' = [cmd |-> "app_start", file |-> file, order |-> order,
                           before |-> self_now, result |-> [kind |-> loaded.kind],
                           started |-> loaded.kind # "Panic"]
    /\ UNCHANGED <<timeline_mutex, calls>>

InitCodec == started_from({NoFile})

\* A first start, on one of the files, or a restart on the file as it is.
app_start_request ==
    \E file \in (IF self_now = timeline_default THEN CodecFiles ELSE {}) \cup {disk} :
        \E order \in Orders(StoredIds(file)) : app_start(file, order)

codec_edit_request ==
    /\ response = Idle
    /\ \E ops \in {<<>>} \cup {<<op>> : op \in Ops(tree)}, io \in IoOutcomes :
           /\ within(ops, MaxCodecChars)
           /\ version < MaxCodecVersion \/ version >= u64_MAX - 1
           /\ handle_edit(version, ops, MaxDate, io)

codec_intern_request ==
    /\ response = Idle
    /\ \E tag \in CodecTags, io \in IoOutcomes :
           /\ command_intern_tag(tag, io)
           /\ Cardinality(DOMAIN tag_registry'.tags) <= MaxCodecTags

codec_assign_request ==
    /\ response = Idle
    /\ \E block_index \in 0..Len(tree), tag \in CodecTags, io \in IoOutcomes :
           /\ command_assign_block_tags(block_index, <<tag>>, io)
           /\ Cardinality(DOMAIN tag_registry'.tags) <= MaxCodecTags

\* The caller takes the reply, unless a panic left nothing to take it from.
codec_receive ==
    /\ ~Crashed
    /\ receive_response

NextCodec ==
    \/ app_start_request
    \/ codec_edit_request
    \/ codec_intern_request
    \/ codec_assign_request
    \/ codec_receive

SpecCodec == InitCodec /\ [][NextCodec]_vars

(***************************************************************************)
(* Claims on the snapshot codec and the commands' saves.                   *)
(***************************************************************************)
\* The application was restarted on the snapshot of the Timeline it had.
Reloaded ==
    /\ response.cmd = "app_start"
    /\ response.file = File(snapshot_of(response.before))

\* C22: the snapshot round trip.  Loading the snapshot saved from a
\* Timeline gives its version, its blocks and its tags back, and the next
\* new segment is given the ID it would have been given before the save.
C22_SnapshotRoundTrip ==
    Reloaded =>
        /\ response.result.kind = "Ok"
        /\ version = response.before.version
        /\ tree = response.before.tree
        /\ tag_registry.tags = response.before.tag_registry.tags
        /\ intern_segment(tag_registry, None, <<"B">>).id
               = intern_segment(response.before.tag_registry, None, <<"B">>).id

\* The application was started on a snapshot with a legacy map of tags.
StartedOnLegacy ==
    /\ response.cmd = "app_start"
    /\ response.file.exists
    /\ response.file.parses
    /\ response.file.snapshot.tag_registry.some
    /\ response.file.snapshot.tag_registry.value.kind = "Flat"

LegacyMap == response.file.snapshot.tag_registry.value.map

\* C23: loading a legacy map keeps the recorded IDs.  For every entry of
\* the map whose path has a non-empty segment the load completes, and the
\* full name of the entry's ID in the loaded registry is the normalised
\* path.
C23_LegacyIdsPreserved ==
    StartedOnLegacy =>
        \A id \in DOMAIN LegacyMap :
            Segments(LegacyMap[id]) # <<>> =>
                /\ response.result.kind = "Ok"
                /\ full_name(tag_registry, id) = Some(join(Segments(LegacyMap[id]), ":"))

\* The legacy map lists every tag it describes: each path has a segment, no
\* two IDs record the same path, and every ancestor of a path is recorded.
Complete(map) ==
    /\ \A id \in DOMAIN map : Segments(map[id]) # <<>>
    /\ \A id, other \in DOMAIN map :
           Segments(map[id]) = Segments(map[other]) => id = other
    /\ \A id \in DOMAIN map : \A n \in 1..(Len(Segments(map[id])) - 1) :
           \E other \in DOMAIN map :
               Segments(map[other]) = SubSeq(Segments(map[id]), 1, n)

\* The ID the map records for the path p.
IdOfPath(map, p) == CHOOSE id \in DOMAIN map : Segments(map[id]) = p

\* The tag record that says of id what the complete legacy map says of it.
TagOfEntry(map, id) ==
    LET p == Segments(map[id])
    IN  Tag(id, p[Len(p)],
            IF Len(p) = 1 THEN None ELSE Some(IdOfPath(map, SubSeq(p, 1, Len(p) - 1))),
            None)

RECURSIVE TagsOfEntries(_, _)
\* The canonical list of tags for the IDs ids of a complete legacy map.
TagsOfEntries(map, ids) ==
    IF ids = {} THEN <<>>
    ELSE LET id == CHOOSE i \in ids : \A other \in ids : i <= other
         IN  <<TagOfEntry(map, id)>> \o TagsOfEntries(map, ids \ {id})

\* C24: a canonical list of tags and a legacy map that describe the same
\* tags (same IDs, same full names) load into equal registries: the same
\* tags with their names, parents and colors, the same index and the same
\* next ID.
C24_LegacyEqualsCanonical ==
    (StartedOnLegacy /\ Complete(LegacyMap)) =>
        /\ response.result.kind = "Ok"
        /\ \A order \in Orders(DOMAIN LegacyMap) :
               tag_registry = from_tags(TagsOfEntries(LegacyMap, DOMAIN LegacyMap), order)

\* C25: only a file that does not exist becomes an empty Timeline.  A start
\* on a missing file runs with the empty Timeline; when the file exists and
\* loading it fails, the failure is propagated and the application does not
\* run with an empty Timeline in its place.
C25_LoadFailurePropagates ==
    response.cmd = "app_start" =>
        /\ ~response.file.exists =>
               (response.started /\ self_now = timeline_default)
        /\ (response.file.exists /\ response.result.kind # "Ok") =>
               ~response.started

\* A command that saves the Timeline has just run.
Saving == response.cmd \in {"handle_edit", "intern_tag", "assign_block_tags"}

\* C26: a save is atomic.  Whatever happens to the write, the file holds
\* after a command either what it held before or the complete snapshot of
\* the Timeline the command produced.
C26_SaveIsAtomic ==
    [][Saving' => (disk' = disk \/ disk' = File(snapshot_of(self_now')))]_vars

\* The save of a mutating command failed: the mutation succeeded and the
\* write did not.
SaveFailed == Saving /\ response.result.kind = "Ok" /\ response.io # "ok"

\* The reply of the command is an error.
ErrorReply == "status" \in DOMAIN response.reply /\ response.reply.status = "error"

\* The Timelines the mutation of the command produces from the Timeline
\* before it.
Mutated ==
    CASE response.cmd = "handle_edit" ->
             {out.timeline :
                 out \in {o \in apply_ops_builds(response.before, response.base_version,
                                                 response.ops, response.today) :
                             o.result.kind = "Ok"}}
      [] response.cmd = "intern_tag" ->
             {intern_tag(response.before, response.tag).timeline}
      [] response.cmd = "assign_block_tags" ->
             {assign_block_tags(response.before, response.block_index,
                                response.tags).timeline}

\* C27: when the save of a mutating command fails, the caller gets an
\* error, and the Timeline in memory is the one the mutation produced.
C27_SaveFailureReported ==
    SaveFailed => (ErrorReply /\ self_now \in Mutated)

\* C28: the version is monotonic.  From whatever version was loaded, no
\* operation makes it smaller, and it changes only in a successful
\* apply_ops with a non-empty list of ops.
C28_VersionMonotonic ==
    [][response'.cmd # "app_start" =>
          /\ version' >= version
          /\ version' # version =>
                 /\ response'.cmd = "handle_edit"
                 /\ response'.result.kind = "Ok"
                 /\ response'.ops # <<>>]_vars

RECURSIVE PrefixTree(_, _, _, _)
\* The rope after the first n ops of the list, applied one after the other.
PrefixTree(t, ops, n, date) ==
    IF n = 0 THEN t
    ELSE apply_op(PrefixTree(t, ops, n - 1, date), ops[n], date).tree

\* Op k of the list, applied after the ops before it.
OpAfterPrefix(t, ops, k, date) == apply_op(PrefixTree(t, ops, k - 1, date), ops[k], date)

\* Op k is the first op of the list to fail.
FirstToFail(t, ops, k, date) ==
    /\ \A j \in 1..(k - 1) : OpAfterPrefix(t, ops, j, date).ok
    /\ ~OpAfterPrefix(t, ops, k, date).ok

\* C29: when the base version matches and op k is the first op to fail,
\* apply_ops returns the error of op k (InvalidPosition or InvalidRange),
\* the version is unchanged, and the rope is the result of applying the ops
\* before k in order: those ops are kept and no later op is applied.
C29_FailureKeepsPrefix ==
    (Edited /\ response.base_version = response.before.version) =>
        \A k \in 1..Len(response.ops) :
            FirstToFail(response.before.tree, response.ops, k, response.today) =>
                /\ response.result =
                       OpAfterPrefix(response.before.tree, response.ops, k,
                                     response.today).err
                /\ response.result.kind \in {"InvalidPosition", "InvalidRange"}
                /\ version = response.before.version
                /\ tree = PrefixTree(response.before.tree, response.ops, k - 1,
                                     response.today)

C29_Witness ==
    /\ Edited
    /\ response.base_version = response.before.version
    /\ Len(response.ops) = 2
    /\ FirstToFail(response.before.tree, response.ops, 2, response.today)
    /\ response.before.tree # <<>>
    /\ tree # response.before.tree
    /\ response.result.kind = "InvalidRange"

\* The numbers j of blocks of T such that position is the boundary after
\* the first j blocks: 0 at the start, Len(T) at the end, a junction between.
BoundariesAt(T, position) ==
    {j \in 0..Len(T) : Length(SubSeq(T, 1, j)) = position}

\* C30: an Insert of a non-empty text at a block boundary (position 0, the
\* total length, or the junction of two blocks) adds exactly one block at
\* that boundary, with the date of the call and no tags; the blocks that
\* were there are unchanged and none is split.  On an empty rope the block
\* is the only one.
C30_BoundaryInsertAddsOneBlock ==
    (SingleOp /\ response.ops[1].type = "insert" /\ response.ops[1].text # <<>>
        /\ BoundariesAt(response.before.tree, response.ops[1].position) # {}) =>
        LET op == response.ops[1]
            T == response.before.tree
        IN  /\ response.result.kind = "Ok"
            /\ \E j \in BoundariesAt(T, op.position) :
                   tree = SubSeq(T, 1, j)
                            \o <<TaggedBlock(response.today, op.text, <<>>)>>
                            \o SubSeq(T, j + 1, Len(T))
            /\ T = <<>> => tree = <<TaggedBlock(response.today, op.text, <<>>)>>

\* A text has been inserted at the junction of two blocks, after a block
\* with no tags and the date of the call and before a tagged block.
C30_Witness ==
    /\ SingleOp
    /\ response.ops[1].type = "insert"
    /\ response.ops[1].text # <<>>
    /\ response.result.kind = "Ok"
    /\ \E j \in BoundariesAt(response.before.tree, response.ops[1].position) :
           /\ 0 < j
           /\ j < Len(response.before.tree)
           /\ response.before.tree[j].date = response.today
           /\ response.before.tree[j].tags = <<>>
           /\ response.before.tree[j + 1].tags # <<>>

(***************************************************************************)
(* Commands invoked concurrently.  Each call runs on a thread of its own:  *)
(* it takes the mutex around the Timeline (get_timeline), mutates the      *)
(* Timeline, saves it when the mutation succeeded, and drops the guard     *)
(* when the command returns.  calls[t] is the call thread t is running.    *)
(***************************************************************************)
Threads == {1, 2}

\* Largest document, in characters, a concurrent edit may be invoked on.
MaxSharedChars == 1

\* Largest version concurrent edits may reach.
MaxSharedVersion == 2

\* Op lists of the concurrent edits: [], one Insert, an Insert followed by
\* a Delete that fails, an Insert of "" followed by a Delete.
SharedOpLists ==
    {<<>>,
     <<Insert(0, <<97>>)>>,
     <<Insert(0, <<97>>), Delete(1, 0)>>,
     <<Insert(0, <<>>), Delete(0, 1)>>}

\* Tag lists of the concurrent assignments: [], ["a", "#a"], ["B", "#"]
\* and ["a:B"].
SharedTagLists ==
    {<<>>,
     << <<"a">>, <<"#", "a">> >>,
     << <<"B">>, <<"#">> >>,
     << <<"a", ":", "B">> >>}

\* The payloads of the commands.
Payloads ==
    {[cmd |-> "handle_edit", base_version |-> base_version, ops |-> ops] :
        base_version \in 0..(MaxSharedVersion - 1), ops \in SharedOpLists}
    \cup {[cmd |-> "intern_tag", tag |-> tag] : tag \in {<<"#", "a">>, <<"#">>}}
    \cup {[cmd |-> "assign_block_tags", block_index |-> block_index, tags |-> tags] :
             block_index \in 0..1, tags \in SharedTagLists}

\* Number of commands a thread runs, one after the other.
MaxCalls == 2

\* A thread with no call, after it has run served calls.
NoCall(served) == [pc |-> "idle", served |-> served]

InitShared ==
    /\ disk = NoFile
    /\ tree = app_state_new(NoFile, <<>>).tree
    /\ version = app_state_new(NoFile, <<>>).version
    /\ tag_registry = app_state_new(NoFile, <<>>).tag_registry
    /\ response = Idle
    /\ timeline_mutex = None
    /\ calls = [t \in Threads |-> NoCall(0)]

\* The runtime dispatches a command to a thread.
invoke(t, payload) ==
    /\ calls[t].pc = "idle"
    /\ calls[t].served < MaxCalls
    /\ payload.cmd = "handle_edit" =>
           summary(tree).total_chars + inserted_chars(payload.ops) <= MaxSharedChars
    /\ calls' = [calls EXCEPT ![t] = [pc |-> "lock", served |-> calls[t].served, payload |-> payload]]
    /\ UNCHANGED <<tree, version, tag_registry, disk, response, timeline_mutex>>

\* A variant of get_timeline that does not wait for the mutex.
get_timeline_without_waiting(t) ==
    /\ calls[t].pc = "lock"
    /\ timeline_mutex' = Some(t)
    /\ calls' = [calls EXCEPT ![t].pc = "mutate"]
    /\ UNCHANGED <<tree, version, tag_registry, disk, response>>

\* state.get_timeline(): the thread blocks until the mutex is free.
get_timeline(t) ==
    /\ calls[t].pc = "lock"
    /\ timeline_mutex = None
    /\ timeline_mutex' = Some(t)
    /\ calls' = [calls EXCEPT ![t].pc = "mutate"]
    /\ UNCHANGED <<tree, version, tag_registry, disk, response>>

\* What the command does to the Timeline behind the guard; for handle_edit,
\* what apply_ops does once base_version has been found equal to the
\* version.
mutation(self, payload) ==
    IF payload.cmd = "handle_edit"
    THEN apply_ops_builds(self, self.version, payload.ops, MaxDate)
    ELSE IF payload.cmd = "intern_tag"
    THEN {intern_tag(self, payload.tag)}
    ELSE {assign_block_tags(self, payload.block_index, payload.tags)}

\* The reply of a command whose mutation failed.
error_reply(result) ==
    IF result.kind = "VersionMismatch" THEN Conflict(result.expected)
    ELSE CommandError(result)

\* apply_ops compares base_version with the version of the Timeline and
\* returns VersionMismatch when they differ.
check_version(t) ==
    /\ calls[t].pc = "mutate"
    /\ calls[t].payload.cmd = "handle_edit"
    /\ calls' = [calls EXCEPT ![t] =
           IF calls[t].payload.base_version # version
           THEN [pc |-> "return",
                 served |-> calls[t].served,
                 payload |-> calls[t].payload,
                 before |-> self_now,
                 result |-> VersionMismatch(version, calls[t].payload.base_version),
                 reply |-> error_reply(VersionMismatch(version, calls[t].payload.base_version))]
           ELSE [calls[t] EXCEPT !.pc = "apply"]]
    /\ UNCHANGED <<tree, version, tag_registry, disk, response, timeline_mutex>>

\* The command mutates the Timeline; an error returns at once.
mutate(t) ==
    /\ \/ calls[t].pc = "apply"
       \/ calls[t].pc = "mutate" /\ calls[t].payload.cmd # "handle_edit"
    /\ \E out \in mutation(self_now, calls[t].payload) :
           /\ tree' = out.timeline.tree
           /\ version' = out.timeline.version
           /\ tag_registry' = out.timeline.tag_registry
           /\ calls' = [calls EXCEPT ![t] =
                  [pc |-> IF out.result.kind = "Ok" THEN "save" ELSE "return",
                   served |-> calls[t].served,
                   payload |-> calls[t].payload,
                   before |-> self_now,
                   result |-> out.result,
                   reply |-> error_reply(out.result)]]
    /\ UNCHANGED <<disk, response, timeline_mutex>>

\* The reply of a command whose mutation succeeded.
ok_reply(payload, result) ==
    IF payload.cmd = "handle_edit" THEN EditOk(result.value) ELSE result

\* timeline.save() after a successful mutation.
save(t) ==
    /\ calls[t].pc = "save"
    /\ disk' = save_to_path(self_now, disk, "ok").file
    /\ calls' = [calls EXCEPT ![t].pc = "return",
                              ![t].reply = ok_reply(calls[t].payload, calls[t].result)]
    /\ UNCHANGED <<tree, version, tag_registry, response, timeline_mutex>>

\* The command returns: the guard is dropped and the reply is sent.
drop_guard(t) ==
    /\ calls[t].pc = "return"
    /\ timeline_mutex' = None
    /\ calls' = [calls EXCEPT ![t].pc = "done"]
    /\ UNCHANGED <<tree, version, tag_registry, disk, response>>

\* The caller has the reply.
receive_reply(t) ==
    /\ calls[t].pc = "done"
    /\ calls' = [calls EXCEPT ![t] = NoCall(calls[t].served + 1)]
    /\ UNCHANGED <<tree, version, tag_registry, disk, response, timeline_mutex>>

invoke_request == \E t \in Threads, payload \in Payloads : invoke(t, payload)

get_timeline_step == \E t \in Threads : get_timeline(t)

check_version_step == \E t \in Threads : check_version(t)

mutate_step == \E t \in Threads : mutate(t)

save_step == \E t \in Threads : save(t)

drop_guard_step == \E t \in Threads : drop_guard(t)

receive_reply_step == \E t \in Threads : receive_reply(t)

NextShared ==
    \/ invoke_request
    \/ get_timeline_step
    \/ check_version_step
    \/ mutate_step
    \/ save_step
    \/ drop_guard_step
    \/ receive_reply_step

SpecShared == InitShared /\ [][NextShared]_vars

(***************************************************************************)
(* Claims on the Timelines reached from the empty one.                     *)
(***************************************************************************)
\* The calls that have mutated the Timeline and not yet been received.
Ran == {t \in Threads : calls[t].pc \in {"save", "return", "done"}}

NonEmptyBlocks(blocks) == \A i \in 1..Len(blocks) : blocks[i].text # <<>>

Deduplicated(tags) == \A i, j \in 1..Len(tags) : tags[i] = tags[j] => i = j

\* C32: in every reachable Timeline the tag list of each block is
\* deduplicated, also after assign_block_tags with tag strings that
\* normalise to the same tag.
C32_TagListsAreDeduplicated ==
    \A i \in 1..Len(tree) : Deduplicated(tree[i].tags)

(***************************************************************************)
(* Allocation of tag IDs: segments interned into an empty registry, into   *)
(* registries with the largest ID in use, and into a registry that has     *)
(* only two IDs left.                                                      *)
(***************************************************************************)
\* Largest number of tags interned into a registry after its load.
MaxIdTags == 3

\* The IDs the crowded registry leaves free.
FreeIds == {1, 4}

\* The name of n characters "a".
UnaryName(n) == [j \in 1..n |-> "a"]

\* Root tags "a", "aa", "aaa", ... that use every ID but the free ones.
CrowdedTags ==
    SelectSeq([i \in 1..IdModulus |-> Tag(i - 1, UnaryName(i), None, None)],
              LAMBDA tag : tag.id \notin FreeIds)

\* Tags 0 and 1 are each other's parent, tag 2 has a parent that does not
\* exist, tag 3 is a root with a color of its own and tag 4 is its child.
MalformedTags ==
    <<Tag(0, <<"a">>, Some(1), None), Tag(1, <<"b">>, Some(0), None),
      Tag(2, <<"a">>, Some(9), None), Tag(3, <<"b">>, None, Some("red")),
      Tag(4, <<"a">>, Some(3), None)>>

IdFiles ==
    {NoFile,
     File(TimelineSnapshot(0, <<>>, Some(Hierarchical(WrapTags)))),
     File(TimelineSnapshot(0, <<>>, Some(Flat(u32_id_MAX :> <<"a">> @@ 2 :> <<"b">>)))),
     File(TimelineSnapshot(0, <<>>, Some(Hierarchical(CrowdedTags)))),
     File(TimelineSnapshot(0, <<>>, Some(Hierarchical(MalformedTags))))}

RECURSIVE Ascending(_)
\* The IDs in increasing order.
Ascending(ids) ==
    IF ids = {} THEN <<>>
    ELSE LET least == CHOOSE id \in ids : \A other \in ids : id <= other
         IN  <<least>> \o Ascending(ids \ {least})

InitIds ==
    \E file \in IdFiles :
        \E loaded \in {app_state_new(file, Ascending(StoredIds(file)))} :
            /\ disk = file
            /\ tree = loaded.tree
            /\ version = loaded.version
            /\ tag_registry = loaded.tag_registry
            /\ response = Idle
            /\ timeline_mutex = None
            /\ calls = <<>>

allocate_request ==
    /\ response = Idle
    /\ \E parent_id \in {None, Some(0), Some(1), Some(2)}, name \in {<<"a">>, <<"b">>} :
           /\ registry_intern_segment(parent_id, name)
           /\ Cardinality(DOMAIN tag_registry'.tags)
                  <= Cardinality(StoredIds(disk)) + MaxIdTags

\* timeline.tag_registry().full_name(id).
full_name_request ==
    /\ response = Idle
    /\ \E id \in 0..(IdModulus - 1) :
           response' = [cmd |-> "full_name", id |-> id, before |-> self_now,
                        result |-> full_name(tag_registry, id),
                        lookups |-> full_name_lookups(tag_registry, Some(id), 0)]
    /\ UNCHANGED <<tree, version, tag_registry, disk, timeline_mutex, calls>>

NextIds ==
    \/ allocate_request
    \/ full_name_request
    \/ receive_response

SpecIds == InitIds /\ [][NextIds]_vars

\* A segment that the registry did not hold has been interned under no
\* parent or under a parent the registry holds: an ID had to be allocated.
Allocating ==
    /\ response.cmd = "intern_segment"
    /\ ~find_id(response.before.tag_registry, response.parent_id, response.name).some
    /\ response.parent_id.some =>
           response.parent_id.value \in DOMAIN response.before.tag_registry.tags

AllIds == 0..(IdModulus - 1)

\* id is the first free ID of the registry met from next_id on, wrapping.
FirstFree(registry, id) ==
    /\ id \in AllIds \ DOMAIN registry.tags
    /\ \A k \in 0..(IdModulus - 1) :
           k < (id - registry.next_id) % IdModulus =>
               wrapping_add(registry.next_id, k) \in DOMAIN registry.tags

\* C33: allocation of an ID for a new segment.  The allocator returns
\* next_id when it is free and otherwise the first free ID met by advancing
\* from next_id with wrapping; the ID was not in the registry and the tags
\* that were there are unchanged; it fails (panics) only when every ID is in
\* use, and then changes nothing; afterwards next_id is the allocated ID + 1,
\* wrapping.  From the empty registry the IDs are 0, 1, 2, ... in interning
\* order.
C33_IdAllocation ==
    Allocating =>
        LET before == response.before.tag_registry
        IN  IF DOMAIN before.tags = AllIds
            THEN response.result = Err("Panic") /\ tag_registry.tags = before.tags
            ELSE /\ response.result.kind = "Ok"
                 /\ FirstFree(before, response.result.value)
                 /\ DOMAIN tag_registry.tags
                        = DOMAIN before.tags \cup {response.result.value}
                 /\ \A id \in DOMAIN before.tags : tag_registry.tags[id] = before.tags[id]
                 /\ tag_registry.next_id = wrapping_add(response.result.value, 1)
                 /\ disk = NoFile =>
                        response.result.value = Cardinality(DOMAIN before.tags)

\* A registry that had one ID left has allocated it, after IDs in use from
\* next_id on were passed over.
C33_Witness ==
    /\ Allocating
    /\ response.result.kind = "Ok"
    /\ response.before.tag_registry.next_id \in DOMAIN response.before.tag_registry.tags
    /\ DOMAIN tag_registry.tags = AllIds

\* Every ID is in use and the allocator has panicked.
C33_WitnessExhausted ==
    Allocating /\ response.result = Err("Panic")

RECURSIVE ReachesRoot(_, _, _)
\* The parent pointers from id lead, over tags of the registry and in at
\* most fuel steps, to a tag without parent.
ReachesRoot(registry, id, fuel) ==
    /\ id \in DOMAIN registry.tags
    /\ \/ ~registry.tags[id].parent_id.some
       \/ /\ fuel > 0
          /\ ReachesRoot(registry, registry.tags[id].parent_id.value, fuel - 1)

RegistrySize == Cardinality(DOMAIN tag_registry.tags)

\* C34: full_name(id) terminates on every registry, also one loaded with
\* cyclic or dangling parent pointers: it returns none when the chain from id
\* is cyclic or dangling or id is unknown, and otherwise the names from the
\* root down to id joined with colons; it looks up at most registry
\* size + 1 tags.
C34_FullNameTerminates ==
    response.cmd = "full_name" =>
        /\ response.lookups <= RegistrySize + 1
        /\ response.result =
               IF ReachesRoot(tag_registry, response.id, RegistrySize - 1)
               THEN Some(join(PathOf(tag_registry, response.id, RegistrySize), ":"))
               ELSE None

\* full_name has walked round a cycle of parent pointers until the guard
\* stopped it.
C34_Witness ==
    /\ response.cmd = "full_name"
    /\ response.id \in DOMAIN tag_registry.tags
    /\ response.result = None
    /\ response.lookups = RegistrySize + 1

\* The color the snapshot file records for tag id, if it records one.
StoredColor(file, id) ==
    IF id \in StoredIds(file)
    THEN collect_tags(file.snapshot.tag_registry.value.tags)[id].color
    ELSE None

\* C35: every tag of a registry, built by interning or loaded from either
\* form of snapshot, carries a color.  A tag created by interning and a
\* loaded tag that had no color have the palette entry at index id mod 16;
\* a loaded tag that had a color keeps it; interning or loading other tags
\* changes no color.
C35_EveryTagHasItsColor ==
    \A id \in DOMAIN tag_registry.tags :
        /\ tag_registry.tags[id].color.some
        /\ tag_registry.tags[id].color.value =
               IF StoredColor(disk, id).some THEN StoredColor(disk, id).value
               ELSE PALETTE[(id % 16) + 1]

\* A segment has been interned into a loaded registry that holds a tag
\* with a color of its own and tags that had none.
C35_Witness ==
    /\ response.cmd = "intern_segment"
    /\ response.result.kind = "Ok"
    /\ response.result.value \notin DOMAIN response.before.tag_registry.tags
    /\ \E id \in DOMAIN tag_registry.tags :
           /\ StoredColor(disk, id).some
           /\ tag_registry.tags[id].color.value \notin {PALETTE[i] : i \in 1..16}
    /\ \E id \in StoredIds(disk) : ~StoredColor(disk, id).some

(***************************************************************************)
(* Claims on commands that run concurrently.                               *)
(***************************************************************************)
\* Calls s and t are edits with the same base_version and some ops.
RivalEdits(s, t) ==
    /\ s # t
    /\ calls[s].pc # "idle"
    /\ calls[t].pc # "idle"
    /\ calls[s].payload.cmd = "handle_edit"
    /\ calls[t].payload.cmd = "handle_edit"
    /\ calls[s].payload.base_version = calls[t].payload.base_version
    /\ calls[s].payload.ops # <<>>
    /\ calls[t].payload.ops # <<>>

\* The edit of call s has succeeded and no other edit has since.
Won(s) == calls[s].result.kind = "Ok" /\ calls[s].result.value = version

\* Call t leaves apply_ops in this step.
LeavesApplyOps(t) == t \notin Ran /\ calls'[t].pc \in {"save", "return"}

\* C36: of two handle_edit requests with the same base_version and
\* non-empty op lists that are processed concurrently on the Timeline
\* behind the mutex, at most one returns Ok; when the one that takes the
\* lock first succeeds, the other returns Conflict with server_version =
\* base_version + 1 and its ops are not applied.
C36_OneRivalEditWins ==
    [][\A s \in Ran, t \in Threads :
          (RivalEdits(s, t) /\ Won(s) /\ LeavesApplyOps(t))
              => /\ calls'[t].reply = Conflict(calls[t].payload.base_version + 1)
                 /\ calls'[t].result.kind # "Ok"
                 /\ self_now' = self_now
                 /\ disk' = disk]_vars

\* Both edits have returned: one Ok with the next version, the other
\* Conflict, and the Timeline holds the ops of the first alone.
C36_Witness ==
    \E s, t \in Ran :
        /\ RivalEdits(s, t)
        /\ calls[s].pc = "done"
        /\ calls[t].pc = "done"
        /\ calls[s].reply = EditOk(calls[s].payload.base_version + 1)
        /\ calls[t].reply = Conflict(calls[t].payload.base_version + 1)
        /\ calls[t].before = self_now
        /\ calls[s].before # self_now
        /\ disk = File(snapshot_of(self_now))

\* The Timeline the snapshot file stands for: the empty one when there is
\* no file.
Persisted == IF disk.exists THEN disk ELSE File(snapshot_of(app_state_new(NoFile, <<>>)))

C39_RejectedAssignmentChangesNothing ==
    \A t \in Ran :
        (/\ calls[t].payload.cmd = "assign_block_tags"
         /\ calls[t].pc = "return"
         /\ calls[t].result.kind \in {"Empty", "Invalid", "MissingName"})
            => /\ tree = calls[t].before.tree
               /\ tag_registry = calls[t].before.tag_registry

\* Every ID of the tag list is a tag of the registry with a full name.
Resolvable(registry, tags) ==
    \A j \in 1..Len(tags) :
        /\ tags[j] \in DOMAIN registry.tags
        /\ full_name(registry, tags[j]).some

\* C38: in every Timeline reached from the empty one through apply_ops,
\* intern_tag and assign_block_tags, every tag ID in the tag list of every
\* block is the ID of a tag of the registry that has a resolvable full
\* name.
C38_BlockTagsAreInTheRegistry ==
    \A i \in 1..Len(tree) : Resolvable(tag_registry, tree[i].tags)

\* assign_block_tags has tagged a block with the child tag "a:B", which it
\* interned together with its parent.
C38_Witness ==
    \E t \in Ran :
        /\ calls[t].payload.cmd = "assign_block_tags"
        /\ calls[t].result.kind = "Ok"
        /\ calls[t].before.tag_registry.tags = <<>>
        /\ \E i \in 1..Len(tree) :
               /\ tree[i].tags # <<>>
               /\ full_name(tag_registry, tree[i].tags[1]) = Some(<<"a", ":", "B">>)

=============================================================================
